---------------------------- MODULE Spec2Model ----------------------------
(***************************************************************************)
(* BackItUp: the backup queue controller (src/main.py, MainWindow), the    *)
(* job supervisor (src/worker.py, BackupWorker) and the path validator     *)
(* (src/utils.py), as one state machine.                                   *)
(*                                                                         *)
(* Threads.  The control thread runs Qt slots one at a time (QueueSelected-*)
(* Backup, Tick, Deliver, ...).  Each BackupWorker.run() is a thread of    *)
(* its own whose steps are cut at every access to state it shares with the *)
(* control thread (_is_cancelled, _process) and at every blocking call.    *)
(* cancel() runs on the control thread and is cut the same way, so the     *)
(* two interleave as the interpreter lets them.  A signal emitted by a     *)
(* worker is a queued call: it is appended to `posted` when a listener is  *)
(* attached at that moment and runs when the control thread takes it.      *)
(* The external rsync process is a third party: it writes lines to two     *)
(* bounded pipes and exits.                                                *)
(*                                                                         *)
(* Text.  A status message, a log line and the error stream are sequences  *)
(* of tokens; formatting concatenates, strip() removes blank tokens at     *)
(* both ends, `x in s` looks for the token.  An output line of rsync is a  *)
(* sequence of characters, searched as the regular expression does.        *)
(* Display-only state that no handler reads back (status bar text,         *)
(* activity log text) is not kept.                                         *)
(***************************************************************************)
EXTENDS Integers, Sequences, FiniteSets, TLC

VARIABLES
    fs,              \* set of paths that exist on the filesystem right now
    store,           \* schema files on disk: name -> saved record
    schemas,         \* MainWindow.schemas: name -> loaded record
    widgets,         \* MainWindow.schema_custom_widgets: name -> list widget
    backup_queue,    \* MainWindow.backup_queue
    current_worker,  \* MainWindow.current_worker: 0 is None, else a job
    jobs,            \* the BackupWorker objects, in creation order
    procs,           \* the rsync process of each job
    posted,          \* queued signal deliveries waiting for the control thread
    singleShots,     \* pending QTimer.singleShot(.., process_backup_queue)
    ctl,             \* where the control thread is (idle, or inside cancel())
    comboText,       \* schema_selector_combo.currentText()
    confirm_delete,  \* delete_schema_button.property("confirm_delete")
    confirm_overwrite, \* save_schema_button.property("confirm_overwrite")
    requests,        \* history: the clicks on "Queue Selected Backup", in order
    popped,          \* history: names popped from the queue, in order
    env,             \* what the surroundings may do in this run (see Init)
    validation,      \* a call of validate_schema_paths: its argument and result
    last_delete      \* history: the last click on Delete with a schema selected

vars == <<fs, store, schemas, widgets, backup_queue, current_worker, jobs,
          procs, posted, singleShots, ctl, comboText, confirm_delete, confirm_overwrite,
          requests, popped, env, validation, last_delete>>

-----------------------------------------------------------------------------
(* Bounds of the model.                                                    *)

\* clicks on "Queue Selected Backup" in one run (so at most this many jobs)
MaxEnq == 3
\* lines / error tokens a pipe buffers before the writer blocks
PipeCap == 2

-----------------------------------------------------------------------------
(* Python values.                                                          *)

PyNone == <<"None">>
PyStr(s) == <<"str", s>>
PyInt(s) == <<"int", s>>
PyList(q) == <<"list", q>>

IsStr(v) == v[1] = "str"
IsList(v) == v[1] = "list"
\* bool(v)
Truthy(v) ==
    CASE v[1] = "None" -> FALSE
      [] v[1] = "str"  -> v[2] # ""
      [] v[1] = "int"  -> v[2] # "0"
      [] v[1] = "list" -> v[2] # <<>>
      [] OTHER -> TRUE

\* dict.get(key, default)
Get(d, k, default) == IF k \in DOMAIN d THEN d[k] ELSE default

\* Path(p).exists()
PathExists(p, fsys) == p \in fsys

RECURSIVE SourceProblems(_, _)
SourceProblems(srcs, fsys) ==
    IF srcs = <<>> THEN <<>>
    ELSE LET src == Head(srcs)
             bad == ~IsStr(src) \/ ~PathExists(src[2], fsys)
         IN (IF bad THEN << <<"Source: ", src>> >> ELSE <<>>)
            \o SourceProblems(Tail(srcs), fsys)

\* the destination's entry of invalid_paths
DestinationProblems(destination, fsys) ==
    IF ~Truthy(destination) \/ ~IsStr(destination)
    THEN << <<"Destination path is missing or invalid">> >>
    ELSE IF ~PathExists(destination[2], fsys)
         THEN << <<"Destination: ", destination>> >>
         ELSE <<>>

\* validate_schema_paths with the loop over the sources left out
validate_schema_paths_DestinationOnly(schema_data, fsys) ==
    IF DOMAIN schema_data = {}
    THEN <<FALSE, << <<"Schema data is empty">> >> >>
    ELSE LET destination == Get(schema_data, "destination", PyNone)
             invalid_paths == DestinationProblems(destination, fsys)
         IN <<invalid_paths = <<>>, invalid_paths>>

\* validate_schema_paths(schema_data): <<is_valid, invalid_paths>>
validate_schema_paths(schema_data, fsys) ==
    IF DOMAIN schema_data = {}
    THEN <<FALSE, << <<"Schema data is empty">> >> >>
    ELSE LET sources0 == Get(schema_data, "sources", PyList(<<>>))
             destination == Get(schema_data, "destination", PyNone)
             fmt == IF ~IsList(sources0)
                    THEN << <<"Sources format is invalid">> >> ELSE <<>>
             sources == IF ~IsList(sources0) THEN <<>> ELSE sources0[2]
             invalid_paths == fmt \o DestinationProblems(destination, fsys)
                                  \o SourceProblems(sources, fsys)
         IN <<invalid_paths = <<>>, invalid_paths>>

-----------------------------------------------------------------------------
(* Text.                                                                   *)

IsBlank(t) == t \in {" ", "\n", "\t"}

RECURSIVE LStrip(_)
LStrip(s) == IF s # <<>> /\ IsBlank(Head(s)) THEN LStrip(Tail(s)) ELSE s

RECURSIVE RStrip(_)
RStrip(s) ==
    IF s # <<>> /\ IsBlank(s[Len(s)]) THEN RStrip(SubSeq(s, 1, Len(s) - 1)) ELSE s

\* str.strip()
Strip(s) == RStrip(LStrip(s))

\* `word in text`
Contains(text, word) == \E i \in 1..Len(text) : text[i] = word

IsDigit(c) == c \in {"0", "1", "2", "3", "4", "5", "6", "7", "8", "9"}

DigitVal(c) ==
    CASE c = "0" -> 0 [] c = "1" -> 1 [] c = "2" -> 2 [] c = "3" -> 3
      [] c = "4" -> 4 [] c = "5" -> 5 [] c = "6" -> 6 [] c = "7" -> 7
      [] c = "8" -> 8 [] c = "9" -> 9

\* int(digits)
RECURSIVE ToInt(_)
ToInt(ds) ==
    IF ds = <<>> THEN 0
    ELSE 10 * ToInt(SubSeq(ds, 1, Len(ds) - 1)) + DigitVal(ds[Len(ds)])

\* re.search(r'\s+(\d+)%\s+', line) matches with the blanks starting at i, the
\* digits at p and the percent sign at q
MatchAt(line, i, p, q) ==
    /\ i < p /\ p < q /\ q < Len(line)
    /\ \A k \in i..(p - 1) : IsBlank(line[k])
    /\ \A k \in p..(q - 1) : IsDigit(line[k])
    /\ line[q] = "%"
    /\ IsBlank(line[q + 1])

Matches(line) ==
    {m \in (1..Len(line)) \X (1..Len(line)) \X (1..Len(line)) :
        MatchAt(line, m[1], m[2], m[3])}

\* the percentage of a progress line: <<TRUE, int(match.group(1))>>, or
\* <<FALSE, 0>> when the line does not match.  The search returns the
\* leftmost match.
ParseProgress(line) ==
    IF Matches(line) = {} THEN <<FALSE, 0>>
    ELSE LET m == CHOOSE x \in Matches(line) :
                      \A y \in Matches(line) : x[1] <= y[1]
         IN <<TRUE, ToInt(SubSeq(line, m[2], m[3] - 1))>>

-----------------------------------------------------------------------------
(* Status messages of worker.py, as token sequences.                       *)

MsgValidation == <<"Path validation failed">>
MsgNoSpace == <<"Insufficient disk space">>
MsgDestNotFound == <<"Destination not found">>
MsgDiskError == <<"Disk space check error">>
MsgCancelled == <<"Cancelled">>
MsgCompleted == <<"Completed">>
MsgNoRsync ==
    <<"rsync command not found. Please ensure rsync is installed and in your PATH.">>
MsgUnexpected(e) == <<"An unexpected error occurred during backup: ", e>>
WarnHead == <<"Completed with warnings", ": Some files changed during transfer.">>
MsgWarning(stderr_output) ==
    WarnHead \o
    (IF stderr_output # <<>> THEN <<" Details: ">> \o Strip(stderr_output) ELSE <<>>)
MsgFailed(return_code, stderr_output) ==
    <<"rsync failed with return code ", ToString(return_code), ".">> \o
    (IF stderr_output # <<>> THEN <<" Stderr: ">> \o Strip(stderr_output) ELSE <<>>)

\* what `self._process.<attr>` raises when _process is None
NoAttr(attr) == "'NoneType' object has no attribute '" \o attr \o "'"

\* free_space_threshold = 100 * 1024 * 1024
free_space_threshold == 104857600

\* exit status of a process ended by SIGTERM, as Popen reports it
SIGTERM_CODE == -15

-----------------------------------------------------------------------------
(* Events (signals of BackupWorker, and QThread.finished).                 *)

Event(j, name, sig, ok, val, msg) ==
    [job |-> j, name |-> name, sig |-> sig, ok |-> ok, val |-> val, msg |-> msg]

EvLog(j, n, msg)      == Event(j, n, "logMessage", FALSE, 0, msg)
EvProgress(j, n, pct) == Event(j, n, "progressUpdated", FALSE, pct, <<>>)
EvFinished(j, n, ok, msg) == Event(j, n, "jobFinished", ok, 0, msg)
EvDisk(j, n, msg)     == Event(j, n, "diskSpaceError", FALSE, 0, msg)
EvValidation(j, n, msg) == Event(j, n, "validationError", FALSE, 0, msg)
EvThreadFinished(j, n) == Event(j, n, "finished", FALSE, 0, <<>>)

-----------------------------------------------------------------------------
(* Objects.                                                                *)

\* a reading of shutil.disk_usage: it raised (err), or it gave `free` bytes
Disk(err, free) == [err |-> err, free |-> free]
NoUsage == Disk(FALSE, -1)

\* BackupWorker.__init__ followed by start(): the thread is about to enter run()
NewWorker(schema_data) ==
    [pc |-> "validate",
     schema_name |-> schema_data.schema_name[2],
     schema_data |-> schema_data,
     cancelled |-> FALSE,        \* _is_cancelled
     cancels |-> 0,              \* history: calls of cancel() on this object
     cancel_pc |-> "",           \* history: where run() was at the first of them
     process |-> FALSE,          \* _process is not None
     stderr_output |-> <<>>,
     return_code |-> 0,
     usage |-> NoUsage,          \* what shutil.disk_usage answered (line 59)
     connected |-> FALSE,        \* the six connections of start_backup
     emitted |-> <<>>]           \* history: every signal run() has emitted

\* a BackupWorker whose thread has ended and that nothing refers to any more
Collected ==
    [pc |-> "collected", schema_name |-> "", schema_data |-> <<>>,
     cancelled |-> FALSE, cancels |-> 0, cancel_pc |-> "", process |-> FALSE,
     stderr_output |-> <<>>, return_code |-> 0, usage |-> NoUsage, connected |-> FALSE,
     emitted |-> <<>>]

NoProc ==
    [st |-> "none", out |-> <<>>, err |-> <<>>, opipe |-> <<>>, epipe |-> <<>>,
     code |-> 0, signalled |-> FALSE, rc |-> 0, wrote |-> <<>>]

\* a process that has exited and whose pipes nobody will read again
Reaped == [NoProc EXCEPT !.st = "reaped"]

\* subprocess.Popen(...) succeeded: the process runs `script`
Spawn(script) ==
    [st |-> "running", out |-> script.out, err |-> script.err,
     opipe |-> <<>>, epipe |-> <<>>, code |-> script.code,
     signalled |-> FALSE, rc |-> 0,
     wrote |-> <<>>]             \* history: the error-stream text written so far

\* QThread.isRunning()
isRunning(w) == w.pc \notin {"done", "collected"}

\* run() has been entered (its first statement has run) and has not returned
InRun(w) == w.pc \notin {"validate", "done", "collected"}

\* reference counting: a worker object lives while current_worker or its own
\* running thread refers to it
Reclaim(js, cw) ==
    [i \in DOMAIN js |->
        IF js[i].pc = "done" /\ i # cw THEN Collected ELSE js[i]]

ReclaimProcs(ps, js) ==
    [i \in DOMAIN ps |->
        IF ps[i].st = "dead" /\ js[i].pc \in {"done", "collected"}
        THEN Reaped ELSE ps[i]]

\* SchemaListItemWidget.__init__
NewWidget(is_valid) == [is_valid |-> is_valid, value |-> 0, visible |-> FALSE, state |-> ""]
\* SchemaListItemWidget.set_progress
set_progress(w, value) == [w EXCEPT !.value = value, !.visible = TRUE, !.state = ""]
\* SchemaListItemWidget.reset_status
reset_status(w) == [w EXCEPT !.value = 0, !.visible = FALSE, !.state = ""]
\* SchemaListItemWidget.set_status
set_status(w, status) ==
    [w EXCEPT !.value = 100, !.visible = TRUE,
              !.state = IF status = "completed with warnings" THEN "warning" ELSE status]

-----------------------------------------------------------------------------
(* The schema store and the lists built from it.                           *)

\* str(v) of a path value
Text(v) == IF IsStr(v) THEN v[2] ELSE v[1]

\* one entry of invalid_paths as text
Render(entry) == IF Len(entry) = 1 THEN entry[1] ELSE entry[1] \o Text(entry[2])

\* SchemaManager.load_schemas: every stored record with its required keys,
\* keyed by its schema_name, with the validity found now attached
load_schemas(st, fsys) ==
    [n \in {m \in DOMAIN st :
              {"schema_name", "sources", "destination"} \subseteq DOMAIN st[m]} |->
        LET v == validate_schema_paths(st[n], fsys)
        IN st[n] @@ ("_is_valid" :> v[1]) @@ ("_invalid_paths" :> v[2])]

\* the Run tab list built by load_and_display_schemas
NewWidgets(loaded) ==
    [n \in DOMAIN loaded |-> NewWidget(Get(loaded[n], "_is_valid", TRUE))]

\* a saved schema record
SchemaRecord(name, sources, destination) ==
    [schema_name |-> PyStr(name),
     sources |-> PyList([i \in 1..Len(sources) |-> PyStr(sources[i])]),
     destination |-> PyStr(destination)]

-----------------------------------------------------------------------------
(* BackupWorker.run(), step by step.                                       *)

\* the signals whose slots change state kept here (update_progress,
\* handle_job_finished, worker_thread_finished); the slots of the others
\* (append_log_message, handle_worker_error) only write display text
HasSlotEffect(e) == e.sig \in {"progressUpdated", "jobFinished", "finished"}

RECURSIVE Effective(_)
Effective(evs) ==
    IF evs = <<>> THEN <<>>
    ELSE (IF HasSlotEffect(Head(evs)) THEN <<Head(evs)>> ELSE <<>>) \o Effective(Tail(evs))

\* signal.emit(...) for each of evs: recorded, and queued for the control
\* thread when the listeners of start_backup are attached
Emitting(js, j, evs) == [js EXCEPT ![j].emitted = @ \o evs]
Posting(q, js, j, evs) == IF js[j].connected THEN q \o Effective(evs) ELSE q

\* what every worker step leaves alone
WorkerFrame ==
    UNCHANGED <<fs, store, schemas, widgets, backup_queue, current_worker,
                singleShots, ctl, comboText, confirm_delete, confirm_overwrite,
                requests, popped, env, validation, last_delete>>

\* a step of job j that emits evs, moves to pc and leaves _process as it is
WorkerStep(j, evs, pc) ==
    /\ jobs' = [Emitting(jobs, j, evs) EXCEPT ![j].pc = pc]
    /\ posted' = Posting(posted, jobs, j, evs)

\* the same, with the disk reading kept in `usage`
WorkerRead(j, usage, evs, pc) ==
    /\ jobs' = [Emitting(jobs, j, evs) EXCEPT ![j].pc = pc, ![j].usage = usage]
    /\ posted' = Posting(posted, jobs, j, evs)

\* the thread ends: QThread emits finished, isRunning() turns false, and the
\* object is reclaimed unless current_worker still refers to it
ThreadEnds(js, j) == Reclaim([js EXCEPT ![j].pc = "done"], current_worker)

\* an except block that logs the error and emits nothing
Raised_Silent(j, attr) ==
    WorkerStep(j, <<>>, "finally")

\* except Exception as e (lines 169-172) for an AttributeError on _process
Raised(j, attr) ==
    WorkerStep(j, <<EvFinished(j, jobs[j].schema_name, FALSE,
                               MsgUnexpected(NoAttr(attr)))>>, "finally")

\* a start of run() that goes on to the disk-space check without validating
WValidate_NoCheck(j) ==
    /\ jobs[j].pc = "validate"
    /\ WorkerStep(j, <<EvLog(j, jobs[j].schema_name,
                             <<"Starting backup for '", jobs[j].schema_name, "'...">>)>>,
                  "space")
    /\ UNCHANGED procs
    /\ WorkerFrame

\* lines 38-49: the start message and the pre-flight path validation
WValidate(j) ==
    /\ jobs[j].pc = "validate"
    /\ LET n == jobs[j].schema_name
           v == validate_schema_paths(jobs[j].schema_data, fs)
           start == EvLog(j, n, <<"Starting backup for '", n, "'...">>)
           error_msg == <<"Path validation failed before starting: ">>
                        \o [i \in 1..Len(v[2]) |-> Render(v[2][i])]
       IN IF ~v[1]
          THEN WorkerStep(j, <<start, EvValidation(j, n, error_msg),
                               EvFinished(j, n, FALSE, MsgValidation)>>, "return")
          ELSE WorkerStep(j, <<start>>, "space")
    /\ UNCHANGED procs
    /\ WorkerFrame

\* a command line built from the schema as it is loaded now
rsync_command_Current(w) ==
    LET d == IF w.schema_name \in DOMAIN schemas THEN schemas[w.schema_name]
             ELSE w.schema_data
    IN <<"rsync", "-a", "--info=progress2", "--no-i-r">>
       \o [i \in 1..Len(d.sources[2]) |-> Text(d.sources[2][i])]
       \o <<Text(d.destination)>>

\* rsync_command of line 90
rsync_command(w) ==
    <<"rsync", "-a", "--info=progress2", "--no-i-r">>
    \o [i \in 1..Len(w.schema_data.sources[2]) |-> Text(w.schema_data.sources[2][i])]
    \o <<Text(w.schema_data.destination)>>

\* the comparison of line 60 against 100 MB counted in powers of ten
SpaceOutcome_Decimal(j, n, destination, usage) ==
    IF usage.free < 100 * 1000 * 1000
    THEN WorkerRead(j, usage,
                    <<EvDisk(j, n, <<"Insufficient disk space at destination '",
                                     Text(destination), "'. Free: ", ToString(usage.free)>>),
                      EvFinished(j, n, FALSE, MsgNoSpace)>>, "return")
    ELSE WorkerRead(j, usage,
                    <<EvLog(j, n, <<"Running: ">> \o rsync_command(jobs[j]))>>, "launch")

\* the outcomes of the free-space comparison of line 60
SpaceOutcome(j, n, destination, usage) ==
    IF usage.free < free_space_threshold
    THEN WorkerRead(j, usage,
                    <<EvDisk(j, n, <<"Insufficient disk space at destination '",
                                     Text(destination), "'. Free: ", ToString(usage.free)>>),
                      EvFinished(j, n, FALSE, MsgNoSpace)>>, "return")
    ELSE WorkerRead(j, usage,
                    <<EvLog(j, n, <<"Running: ">> \o rsync_command(jobs[j]))>>, "launch")

\* lines 52-93: the disk-space check, then the command line
WSpace(j) ==
    /\ jobs[j].pc = "space"
    /\ LET n == jobs[j].schema_name
           destination == Get(jobs[j].schema_data, "destination", PyNone)
       IN IF ~PathExists(Text(destination), fs)
          THEN \* shutil.disk_usage raises FileNotFoundError
               WorkerStep(j, <<EvValidation(j, n, <<"Destination directory '",
                                   Text(destination), "' not found for disk space check.">>),
                               EvFinished(j, n, FALSE, MsgDestNotFound)>>, "return")
          ELSE \E usage \in env.disk :
                 IF usage.err
                 THEN \* shutil.disk_usage raises another error
                      WorkerRead(j, usage,
                                 <<EvDisk(j, n, <<"Error checking disk space for '",
                                          Text(destination), "': ", "OSError">>),
                                   EvFinished(j, n, FALSE, MsgDiskError)>>, "return")
                 ELSE SpaceOutcome(j, n, destination, usage)
    /\ UNCHANGED procs
    /\ WorkerFrame

\* lines 96-105: subprocess.Popen, and what it can raise
WLaunch(j) ==
    /\ jobs[j].pc = "launch"
    /\ \E r \in env.popen :
         CASE r = "ok" ->
                \E s \in env.scripts :
                  /\ j \in env.launchable
                  /\ jobs' = [jobs EXCEPT ![j].pc = "loop", ![j].process = TRUE]
                  /\ procs' = [procs EXCEPT ![j] = Spawn(s)]
                  /\ posted' = posted
           [] r = "FileNotFoundError" ->
                /\ WorkerStep(j, <<EvFinished(j, jobs[j].schema_name, FALSE, MsgNoRsync)>>,
                              "finally")
                /\ UNCHANGED procs
           [] OTHER ->
                /\ WorkerStep(j, <<EvFinished(j, jobs[j].schema_name, FALSE,
                                              MsgUnexpected(r))>>, "finally")
                /\ UNCHANGED procs
    /\ WorkerFrame

\* lines 108-109: the top of the read loop polls the cancellation flag
WLoop_Unconditional(j) ==
    /\ jobs[j].pc = "loop"
    /\ jobs' = [jobs EXCEPT ![j].pc = "tp1"]
    /\ UNCHANGED <<procs, posted>>
    /\ WorkerFrame

WLoop(j) ==
    /\ jobs[j].pc = "loop"
    /\ jobs' = [jobs EXCEPT ![j].pc = IF jobs[j].cancelled THEN "tp1" ELSE "readline"]
    /\ UNCHANGED <<procs, posted>>
    /\ WorkerFrame

\* line 115, `self._process.stdout`: the handle is read before the call blocks
WReadline(j) ==
    /\ jobs[j].pc = "readline"
    /\ IF jobs[j].process
       THEN jobs' = [jobs EXCEPT ![j].pc = "readwait"] /\ posted' = posted
       ELSE Raised(j, "stdout")
    /\ UNCHANGED procs
    /\ WorkerFrame

\* a loop body that reports the percentage before it logs the line
LineEvents_ProgressFirst(j, n, line) ==
    LET m == ParseProgress(line)
    IN (IF m[1] THEN <<EvProgress(j, n, m[2])>> ELSE <<>>)
       \o <<EvLog(j, n, Strip(line))>>

\* lines 119-127: what one line of output emits
LineEvents(j, n, line) ==
    LET m == ParseProgress(line)
    IN <<EvLog(j, n, Strip(line))>>
       \o (IF m[1] THEN <<EvProgress(j, n, m[2])>> ELSE <<>>)

\* lines 115-127: readline() returns a line, or "" at the end of the stream
WReadWait(j) ==
    /\ jobs[j].pc = "readwait"
    /\ \/ /\ procs[j].opipe # <<>>
          /\ WorkerStep(j, LineEvents(j, jobs[j].schema_name, Head(procs[j].opipe)), "loop")
          /\ procs' = [procs EXCEPT ![j].opipe = Tail(@)]
       \/ /\ procs[j].opipe = <<>>
          /\ procs[j].st # "running"
          /\ WorkerStep(j, <<>>, "poll")
          /\ UNCHANGED procs
    /\ WorkerFrame

\* line 116: `self._process.poll()` after an empty read
WPoll(j) ==
    /\ jobs[j].pc = "poll"
    /\ IF ~jobs[j].process THEN Raised(j, "poll")
       ELSE WorkerStep(j, <<>>, IF procs[j].st = "running" THEN "loop" ELSE "stderr")
    /\ UNCHANGED procs
    /\ WorkerFrame

\* lines 130-133: drain the error stream
WStderr(j) ==
    /\ jobs[j].pc = "stderr"
    /\ IF ~jobs[j].process
       THEN Raised(j, "stderr") /\ UNCHANGED procs
       ELSE /\ procs[j].st # "running"
            /\ LET stderr_output == procs[j].epipe
                   n == jobs[j].schema_name
                   evs == IF stderr_output # <<>>
                          THEN <<EvLog(j, n, <<"STDERR: ">> \o Strip(stderr_output))>>
                          ELSE <<>>
               IN /\ jobs' = [Emitting(jobs, j, evs) EXCEPT
                                 ![j].pc = "wait", ![j].stderr_output = stderr_output]
                  /\ posted' = Posting(posted, jobs, j, evs)
            /\ procs' = [procs EXCEPT ![j].epipe = <<>>]
    /\ WorkerFrame

\* line 135: return_code = self._process.wait()
WWait(j) ==
    /\ jobs[j].pc = "wait"
    /\ IF ~jobs[j].process
       THEN Raised(j, "wait")
       ELSE /\ procs[j].st # "running"
            /\ jobs' = [jobs EXCEPT ![j].pc = "after", ![j].return_code = procs[j].rc]
            /\ posted' = posted
    /\ UNCHANGED procs
    /\ WorkerFrame

\* lines 143-163 with line 154 left out: no progress event before the
\* terminal event of code 24
ExitEvents_NoForce24(j, n, return_code, stderr_output) ==
    CASE return_code = 0 ->
           <<EvProgress(j, n, 100), EvFinished(j, n, TRUE, MsgCompleted)>>
      [] return_code = 24 ->
           (IF stderr_output # <<>>
            THEN <<EvLog(j, n, <<"Warning: ">> \o Strip(stderr_output))>> ELSE <<>>)
           \o <<EvFinished(j, n, TRUE, MsgWarning(stderr_output))>>
      [] OTHER ->
           <<EvFinished(j, n, FALSE, MsgFailed(return_code, stderr_output))>>

\* lines 143-163 without the branch for code 24: every nonzero code fails
ExitEvents_ZeroOnly(j, n, return_code, stderr_output) ==
    IF return_code = 0
    THEN <<EvProgress(j, n, 100), EvFinished(j, n, TRUE, MsgCompleted)>>
    ELSE <<EvFinished(j, n, FALSE, MsgFailed(return_code, stderr_output))>>

\* lines 143-163: the terminal event the exit code gives
ExitEvents(j, n, return_code, stderr_output) ==
    CASE return_code = 0 ->
           <<EvProgress(j, n, 100), EvFinished(j, n, TRUE, MsgCompleted)>>
      [] return_code = 24 ->
           (IF stderr_output # <<>>
            THEN <<EvLog(j, n, <<"Warning: ">> \o Strip(stderr_output))>> ELSE <<>>)
           \o <<EvProgress(j, n, 100), EvFinished(j, n, TRUE, MsgWarning(stderr_output))>>
      [] OTHER ->
           <<EvFinished(j, n, FALSE, MsgFailed(return_code, stderr_output))>>

\* lines 137-163: the second look at the flag, then the exit code
WAfter(j) ==
    /\ jobs[j].pc = "after"
    /\ LET n == jobs[j].schema_name
       IN IF jobs[j].cancelled
          THEN WorkerStep(j, <<EvFinished(j, n, FALSE, MsgCancelled)>>, "finally")
          ELSE WorkerStep(j, ExitEvents(j, n, jobs[j].return_code, jobs[j].stderr_output),
                          "finally")
    /\ UNCHANGED procs
    /\ WorkerFrame

\* EmitCancelled with the flag lowered again once the event is out
EmitCancelled_Reset(j) ==
    /\ jobs' = [Emitting(jobs, j, <<EvFinished(j, jobs[j].schema_name, FALSE, MsgCancelled)>>)
                   EXCEPT ![j].pc = "finally", ![j].cancelled = FALSE]
    /\ posted' = Posting(posted, jobs, j,
                         <<EvFinished(j, jobs[j].schema_name, FALSE, MsgCancelled)>>)

\* lines 111-113: terminate_process() has returned to run(), which emits the
\* cancelled terminal event
EmitCancelled(j) ==
    WorkerStep(j, <<EvFinished(j, jobs[j].schema_name, FALSE, MsgCancelled)>>, "finally")

\* line 184, first half: `if self._process`
WTerminate1(j) ==
    /\ jobs[j].pc = "tp1"
    /\ IF jobs[j].process
       THEN jobs' = [jobs EXCEPT ![j].pc = "tp2"] /\ posted' = posted
       ELSE EmitCancelled(j)
    /\ UNCHANGED procs
    /\ WorkerFrame

\* line 184, second half: `self._process.poll() is None`, outside the try
WTerminate2(j) ==
    /\ jobs[j].pc = "tp2"
    /\ IF ~jobs[j].process THEN Raised(j, "poll")
       ELSE IF procs[j].st # "running" THEN EmitCancelled(j)
       ELSE jobs' = [jobs EXCEPT ![j].pc = "tp3"] /\ posted' = posted
    /\ UNCHANGED procs
    /\ WorkerFrame

\* Popen.terminate(): SIGTERM, unless the process has already exited
Signalled(p) == IF p.st = "running" THEN [p EXCEPT !.signalled = TRUE] ELSE p

\* lines 185-193: the try block; an AttributeError here is caught and logged
WTerminate3(j) ==
    /\ jobs[j].pc = "tp3"
    /\ jobs' = [jobs EXCEPT ![j].pc = "tp5"]
    /\ procs' = IF jobs[j].process THEN [procs EXCEPT ![j] = Signalled(@)] ELSE procs
    /\ posted' = posted
    /\ WorkerFrame

\* lines 194-195: finally, self._process = None; then back in run()
WTerminate5(j) ==
    /\ jobs[j].pc = "tp5"
    /\ jobs' = [Emitting(jobs, j, <<EvFinished(j, jobs[j].schema_name, FALSE, MsgCancelled)>>)
                   EXCEPT ![j].pc = "finally", ![j].process = FALSE]
    /\ posted' = Posting(posted, jobs, j,
                         <<EvFinished(j, jobs[j].schema_name, FALSE, MsgCancelled)>>)
    /\ UNCHANGED procs
    /\ WorkerFrame

\* lines 173-174, then the end of the thread
WFinally(j) ==
    /\ jobs[j].pc = "finally"
    /\ jobs' = ThreadEnds([jobs EXCEPT ![j].process = FALSE], j)
    /\ procs' = ReclaimProcs(procs, jobs')
    /\ posted' = Posting(posted, jobs, j, <<EvThreadFinished(j, jobs[j].schema_name)>>)
    /\ WorkerFrame

\* a return of lines 49, 68, 74, 81, then the end of the thread
WReturn(j) ==
    /\ jobs[j].pc = "return"
    /\ jobs' = ThreadEnds(jobs, j)
    /\ procs' = ReclaimProcs(procs, jobs')
    /\ posted' = Posting(posted, jobs, j, <<EvThreadFinished(j, jobs[j].schema_name)>>)
    /\ WorkerFrame

Worker(j) ==
    \/ WValidate(j) \/ WSpace(j) \/ WLaunch(j) \/ WLoop(j) \/ WReadline(j)
    \/ WReadWait(j) \/ WPoll(j) \/ WStderr(j) \/ WWait(j) \/ WAfter(j)
    \/ WTerminate1(j) \/ WTerminate2(j) \/ WTerminate3(j) \/ WTerminate5(j)
    \/ WFinally(j) \/ WReturn(j)

-----------------------------------------------------------------------------
(* The rsync process.                                                      *)

ProcFrame ==
    UNCHANGED <<fs, store, schemas, widgets, backup_queue, current_worker, jobs,
                posted, singleShots, ctl, comboText, confirm_delete,
                confirm_overwrite, requests,
                popped, env, validation, last_delete>>

\* the process writes its next line of standard output
ProcWriteOut(j) ==
    /\ procs[j].st = "running"
    /\ procs[j].out # <<>>
    /\ Len(procs[j].opipe) < PipeCap
    /\ procs' = [procs EXCEPT ![j].opipe = Append(@, Head(procs[j].out)),
                              ![j].out = Tail(@)]
    /\ ProcFrame

\* the process writes its next piece of error-stream text
ProcWriteErr(j) ==
    /\ procs[j].st = "running"
    /\ procs[j].err # <<>>
    /\ Len(procs[j].epipe) < PipeCap
    /\ procs' = [procs EXCEPT ![j].epipe = Append(@, Head(procs[j].err)),
                              ![j].wrote = Append(@, Head(procs[j].err)),
                              ![j].err = Tail(@)]
    /\ ProcFrame

\* the process has written everything and exits with its code
ProcExit(j) ==
    /\ procs[j].st = "running"
    /\ procs[j].out = <<>> /\ procs[j].err = <<>>
    /\ procs' = ReclaimProcs([procs EXCEPT ![j].st = "dead", ![j].rc = procs[j].code], jobs)
    /\ ProcFrame

\* the process dies of the SIGTERM it was sent
ProcKilled(j) ==
    /\ procs[j].st = "running"
    /\ procs[j].signalled
    /\ procs' = ReclaimProcs([procs EXCEPT ![j].st = "dead", ![j].rc = SIGTERM_CODE], jobs)
    /\ ProcFrame

Process(j) == ProcWriteOut(j) \/ ProcWriteErr(j) \/ ProcExit(j) \/ ProcKilled(j)

\* a path appears or disappears
FsChange(p) ==
    /\ \/ p \in fs /\ p \in env.vanish
       \/ p \notin fs /\ p \in env.appear
    /\ fs' = IF p \in fs THEN fs \ {p} ELSE fs \cup {p}
    /\ UNCHANGED <<store, schemas, widgets, backup_queue, current_worker, jobs, procs,
                   posted, singleShots, ctl, comboText, confirm_delete,
                   confirm_overwrite, requests,
                   popped, env, validation, last_delete>>

-----------------------------------------------------------------------------
(* MainWindow: the slots of the control thread.                            *)

Idle == ctl.pc = "idle"
CtlIdle == [pc |-> "idle", job |-> 0]

\* a membership test that looks at the head of the queue only
InQueue_HeadOnly(q, n) == q # <<>> /\ Head(q) = n

\* `schema_name not in self.backup_queue`
InQueue(q, n) == \E i \in 1..Len(q) : q[i] = n

\* one click: the selected name, and which branch of queue_selected_backup it took
Request(n, outcome) == [name |-> n, outcome |-> outcome]

\* the names the clicks appended to the queue, in order
RECURSIVE Accepted(_)
Accepted(rs) ==
    IF rs = <<>> THEN <<>>
    ELSE (IF Head(rs).outcome = "queued" THEN <<Head(rs).name>> ELSE <<>>)
         \o Accepted(Tail(rs))

\* queue_selected_backup, with the list item of schema n selected
QueueSelectedBackup(n) ==
    /\ Idle
    /\ n \in DOMAIN widgets
    /\ n \in env.queueable
    /\ Len(requests) < env.budget
    /\ IF ~widgets[n].is_valid
       THEN /\ requests' = Append(requests, Request(n, "invalid"))
            /\ UNCHANGED backup_queue
       ELSE IF ~InQueue(backup_queue, n)
            THEN /\ backup_queue' = Append(backup_queue, n)
                 /\ requests' = Append(requests, Request(n, "queued"))
            ELSE /\ requests' = Append(requests, Request(n, "duplicate"))
                 /\ UNCHANGED backup_queue
    /\ UNCHANGED <<fs, store, schemas, widgets, current_worker, jobs, procs, posted,
                   singleShots, ctl, comboText, confirm_delete,
                   confirm_overwrite, popped, env, validation, last_delete>>

\* start_backup(schema_data): a new worker takes the slot, with its listeners
\* attached and its thread started
start_backup(schema_data) ==
    LET schema_name == schema_data.schema_name[2]
        j == Len(jobs) + 1
    IN /\ widgets' = IF schema_name \in DOMAIN widgets
                     THEN [widgets EXCEPT ![schema_name] = set_progress(reset_status(@), 0)]
                     ELSE widgets
       /\ current_worker' = j
       /\ jobs' = Reclaim(Append(jobs, [NewWorker(schema_data) EXCEPT !.connected = TRUE]), j)
       /\ procs' = ReclaimProcs(Append(procs, NoProc), jobs')

\* a guard that waits until the slot has been emptied
SlotFree_Emptied == current_worker = 0

\* the guard of process_backup_queue, line 431
SlotFree == current_worker = 0 \/ ~isRunning(jobs[current_worker])

\* deque.pop(): the element is taken from the right end
popleft_Right(q) == <<q[Len(q)], SubSeq(q, 1, Len(q) - 1)>>

\* a read of the head that leaves it in the queue
popleft_Peek(q) == <<Head(q), q>>

\* deque.popleft(): <<the element removed, the rest>>
popleft(q) == <<Head(q), Tail(q)>>

\* a process_backup_queue that skips an unknown name and schedules nothing
process_backup_queue_NoRetry(shots) ==
    IF SlotFree /\ backup_queue # <<>>
    THEN LET schema_name == popleft(backup_queue)[1]
         IN /\ backup_queue' = popleft(backup_queue)[2]
            /\ popped' = Append(popped, schema_name)
            /\ singleShots' = shots
            /\ IF schema_name \in DOMAIN schemas
               THEN start_backup(schemas[schema_name])
               ELSE UNCHANGED <<widgets, current_worker, jobs, procs>>
    ELSE /\ singleShots' = shots
         /\ UNCHANGED <<backup_queue, popped, widgets, current_worker, jobs, procs>>

\* process_backup_queue
process_backup_queue(shots) ==
    IF SlotFree /\ backup_queue # <<>>
    THEN LET schema_name == popleft(backup_queue)[1]
         IN /\ backup_queue' = popleft(backup_queue)[2]
            /\ popped' = Append(popped, schema_name)
            /\ IF schema_name \in DOMAIN schemas
               THEN /\ start_backup(schemas[schema_name])
                    /\ singleShots' = shots
               ELSE /\ singleShots' = shots + 1
                    /\ UNCHANGED <<widgets, current_worker, jobs, procs>>
    ELSE /\ singleShots' = shots
         /\ UNCHANGED <<backup_queue, popped, widgets, current_worker, jobs, procs>>

\* the periodic queue_timer fires (line 130)
Tick ==
    /\ Idle
    /\ process_backup_queue(singleShots)
    /\ UNCHANGED <<fs, store, schemas, posted, ctl, comboText, confirm_delete, confirm_overwrite,
                   requests, env, validation, last_delete>>

\* a QTimer.singleShot of line 442 or 546 fires
SingleShot ==
    /\ Idle
    /\ singleShots > 0
    /\ process_backup_queue(singleShots - 1)
    /\ UNCHANGED <<fs, store, schemas, posted, ctl, comboText, confirm_delete, confirm_overwrite,
                   requests, env, validation, last_delete>>

\* the status handle_job_finished derives from the terminal event
JobStatus(success, status_message) ==
    IF Contains(status_message, "Cancelled") THEN "cancelled"
    ELSE IF success THEN "success"
    ELSE "failed"

\* handle_job_finished
handle_job_finished(e) ==
    /\ widgets' = IF e.name \in DOMAIN widgets
                  THEN [widgets EXCEPT ![e.name] = set_status(@, JobStatus(e.ok, e.msg))]
                  ELSE widgets
    /\ UNCHANGED <<current_worker, jobs, procs, singleShots>>

\* update_progress
update_progress(e) ==
    /\ widgets' = IF e.name \in DOMAIN widgets
                  THEN [widgets EXCEPT ![e.name] = set_progress(@, e.val)]
                  ELSE widgets
    /\ UNCHANGED <<current_worker, jobs, procs, singleShots>>

\* worker_thread_finished
worker_thread_finished ==
    /\ IF current_worker # 0
       THEN /\ current_worker' = 0
            /\ jobs' = Reclaim([jobs EXCEPT ![current_worker].connected = FALSE], 0)
            /\ procs' = ReclaimProcs(procs, jobs')
       ELSE UNCHANGED <<current_worker, jobs, procs>>
    /\ singleShots' = singleShots + 1
    /\ UNCHANGED widgets

\* the control thread takes the next queued signal and runs its slot
Deliver ==
    /\ Idle
    /\ posted # <<>>
    /\ posted' = Tail(posted)
    /\ LET e == Head(posted)
       IN CASE e.sig = "progressUpdated" -> update_progress(e)
            [] e.sig = "jobFinished" -> handle_job_finished(e)
            [] e.sig = "finished" -> worker_thread_finished
            [] OTHER -> \* append_log_message, handle_worker_error: display only
                 UNCHANGED <<widgets, current_worker, jobs, procs, singleShots>>
    /\ UNCHANGED <<fs, store, schemas, backup_queue, ctl, comboText, confirm_delete,
                   confirm_overwrite, requests, popped, env, validation, last_delete>>

\* a cancel request that reaches whatever worker the slot holds
CancelCurrentBackup_AnyWorker ==
    /\ Idle
    /\ IF current_worker # 0 /\ jobs[current_worker].pc # "collected"
       THEN /\ current_worker \in env.cancellable
            /\ jobs[current_worker].cancels < env.cancels
            /\ jobs' = [jobs EXCEPT ![current_worker].cancelled = TRUE,
                                    ![current_worker].cancels = @ + 1,
                                    ![current_worker].cancel_pc =
                                        IF @ = "" THEN jobs[current_worker].pc ELSE @]
            /\ ctl' = [pc |-> "tp1", job |-> current_worker]
       ELSE UNCHANGED <<jobs, ctl>>
    /\ UNCHANGED <<fs, store, schemas, widgets, backup_queue, current_worker, procs,
                   posted, singleShots, comboText, confirm_delete,
                   confirm_overwrite, requests, popped, env, validation, last_delete>>

\* cancel_current_backup, up to the first statement of BackupWorker.cancel()
CancelCurrentBackup ==
    /\ Idle
    /\ IF current_worker # 0 /\ isRunning(jobs[current_worker])
       THEN /\ current_worker \in env.cancellable
            /\ jobs[current_worker].cancels < env.cancels
            /\ jobs' = [jobs EXCEPT ![current_worker].cancelled = TRUE,
                                    ![current_worker].cancels = @ + 1,
                                    ![current_worker].cancel_pc =
                                        IF @ = "" THEN jobs[current_worker].pc ELSE @]
            /\ ctl' = [pc |-> "tp1", job |-> current_worker]
       ELSE UNCHANGED <<jobs, ctl>>
    /\ UNCHANGED <<fs, store, schemas, widgets, backup_queue, current_worker, procs,
                   posted, singleShots, comboText, confirm_delete,
                   confirm_overwrite, requests, popped, env, validation, last_delete>>

CtlFrame ==
    UNCHANGED <<fs, store, schemas, widgets, backup_queue, current_worker, posted,
                singleShots, comboText, confirm_delete, confirm_overwrite,
                requests, popped, env, validation, last_delete>>

\* terminate_process() called by cancel(), line 184, first half
CTerminate1 ==
    /\ ctl.pc = "tp1"
    /\ ctl' = IF jobs[ctl.job].process THEN [ctl EXCEPT !.pc = "tp2"] ELSE CtlIdle
    /\ UNCHANGED <<jobs, procs>>
    /\ CtlFrame

\* line 184, second half: an AttributeError here leaves cancel() and the slot
CTerminate2 ==
    /\ ctl.pc = "tp2"
    /\ ctl' = IF ~jobs[ctl.job].process THEN [ctl EXCEPT !.pc = "raised"]
              ELSE IF procs[ctl.job].st # "running" THEN CtlIdle
              ELSE [ctl EXCEPT !.pc = "tp3"]
    /\ UNCHANGED <<jobs, procs>>
    /\ CtlFrame

\* lines 185-193
CTerminate3 ==
    /\ ctl.pc = "tp3"
    /\ ctl' = [ctl EXCEPT !.pc = "tp5"]
    /\ procs' = IF jobs[ctl.job].process
                THEN [procs EXCEPT ![ctl.job] = Signalled(@)] ELSE procs
    /\ UNCHANGED jobs
    /\ CtlFrame

\* lines 194-195
CTerminate5 ==
    /\ ctl.pc = "tp5"
    /\ ctl' = CtlIdle
    /\ jobs' = [jobs EXCEPT ![ctl.job].process = FALSE]
    /\ UNCHANGED procs
    /\ CtlFrame

\* the exception that left the slot is reported and the event loop goes on
CUnwind ==
    /\ ctl.pc = "raised"
    /\ ctl' = CtlIdle
    /\ UNCHANGED <<jobs, procs>>
    /\ CtlFrame

\* load_and_display_schemas: both lists are rebuilt from the files
load_and_display_schemas(st) ==
    /\ schemas' = load_schemas(st, fs)
    /\ widgets' = NewWidgets(schemas')
    /\ comboText' = ""

\* the user picks an entry of the Edit tab's combo box
SelectCombo(n) ==
    /\ Idle
    /\ n \in DOMAIN schemas \cup {""}
    /\ n \in env.editable
    /\ comboText' = n
    /\ UNCHANGED <<fs, store, schemas, widgets, backup_queue, current_worker, jobs,
                   procs, posted, singleShots, ctl, confirm_delete,
                   confirm_overwrite, requests, popped, env, validation, last_delete>>

\* SchemaManager.delete_schema: the file is removed when it exists
delete_schema(st, schema_name) ==
    [n \in DOMAIN st \ {schema_name} |-> st[n]]

\* a click on Delete: the schema selected, and whether the click took the
\* branch that deletes
DeleteRequest(n, confirmed) == [name |-> n, confirmed |-> confirmed]
NoDelete == DeleteRequest("", FALSE)

\* a delete that asks for no confirmation
DeleteSelectedSchema_AtOnce ==
    /\ Idle
    /\ IF comboText = ""
       THEN UNCHANGED <<store, schemas, widgets, comboText, confirm_delete, last_delete>>
       ELSE /\ confirm_delete' = ""
            /\ last_delete' = DeleteRequest(comboText, TRUE)
            /\ store' = delete_schema(store, comboText)
            /\ IF comboText \in DOMAIN store
               THEN load_and_display_schemas(store')
               ELSE UNCHANGED <<schemas, widgets, comboText>>
    /\ UNCHANGED <<fs, backup_queue, current_worker, jobs, procs, posted, singleShots,
                   ctl, confirm_overwrite, requests, popped, env, validation>>

\* delete_selected_schema
DeleteSelectedSchema ==
    /\ Idle
    /\ IF comboText = ""
       THEN UNCHANGED <<store, schemas, widgets, comboText, confirm_delete, last_delete>>
       ELSE IF confirm_delete = comboText
            THEN /\ confirm_delete' = ""
                 /\ last_delete' = DeleteRequest(comboText, TRUE)
                 /\ store' = delete_schema(store, comboText)
                 /\ IF comboText \in DOMAIN store
                    THEN load_and_display_schemas(store')
                    ELSE UNCHANGED <<schemas, widgets, comboText>>
            ELSE /\ confirm_delete' = comboText
                 /\ last_delete' = DeleteRequest(comboText, FALSE)
                 /\ UNCHANGED <<store, schemas, widgets, comboText>>
    /\ UNCHANGED <<fs, backup_queue, current_worker, jobs, procs, posted, singleShots,
                   ctl, confirm_overwrite, requests, popped, env, validation>>

\* the text of a line edit: its characters joined
RECURSIVE Join(_)
Join(q) == IF q = <<>> THEN "" ELSE Head(q) \o Join(Tail(q))

\* what the user has typed in the Edit tab
Form(name, sources, destination) ==
    [name |-> name, sources |-> sources, destination |-> destination]

\* SchemaManager.get_schema_filepath, for names that sanitize_filename
\* leaves as they are
get_schema_filepath(schema_name) == schema_name

\* SchemaManager.save_schema: the file of the record is written
save_schema(st, schema_data) ==
    LET filepath == get_schema_filepath(schema_data.schema_name[2])
    IN [n \in DOMAIN st \cup {filepath} |->
           IF n = filepath THEN schema_data ELSE st[n]]

\* a save that writes the file and leaves the loaded schemas as they were
perform_save_NoReload(schema_data) ==
    /\ store' = save_schema(store, schema_data)
    /\ UNCHANGED <<schemas, widgets, comboText>>

\* _perform_save: on success both lists are reloaded and the saved schema is
\* selected again; a write that fails changes nothing
perform_save(schema_data) ==
    \E success \in env.writes :
        IF success
        THEN /\ store' = save_schema(store, schema_data)
             /\ schemas' = load_schemas(store', fs)
             /\ widgets' = NewWidgets(schemas')
             /\ comboText' = IF schema_data.schema_name[2] \in DOMAIN schemas'
                              THEN schema_data.schema_name[2] ELSE ""
        ELSE UNCHANGED <<store, schemas, widgets, comboText>>

\* a save that accepts any destination text
SaveCurrentSchema_AnyDestination(form) ==
    /\ Idle
    /\ form \in env.saves
    /\ LET schema_name == Join(Strip(form.name))
           sources == form.sources
           destination == Join(Strip(form.destination))
           schema_data == SchemaRecord(schema_name, sources, destination)
           filepath_new == get_schema_filepath(schema_name)
       IN IF schema_name = "" \/ sources = <<>>
          THEN UNCHANGED <<store, schemas, widgets, comboText, confirm_overwrite>>
          ELSE IF /\ filepath_new \in DOMAIN store
                  /\ (comboText = "" \/ get_schema_filepath(comboText) # filepath_new)
               THEN IF confirm_overwrite = schema_name
                    THEN /\ confirm_overwrite' = ""
                         /\ perform_save(schema_data)
                    ELSE /\ confirm_overwrite' = schema_name
                         /\ UNCHANGED <<store, schemas, widgets, comboText>>
               ELSE /\ confirm_overwrite' = ""
                    /\ perform_save(schema_data)
    /\ UNCHANGED <<fs, backup_queue, current_worker, jobs, procs, posted, singleShots,
                   ctl, confirm_delete, requests, popped, env, validation, last_delete>>

\* save_current_schema, with `form` in the edit fields
SaveCurrentSchema(form) ==
    /\ Idle
    /\ form \in env.saves
    /\ LET schema_name == Join(Strip(form.name))
           sources == form.sources
           destination == Join(Strip(form.destination))
           schema_data == SchemaRecord(schema_name, sources, destination)
           filepath_new == get_schema_filepath(schema_name)
       IN IF schema_name = "" \/ sources = <<>> \/ destination = ""
          THEN UNCHANGED <<store, schemas, widgets, comboText, confirm_overwrite>>
          ELSE IF /\ filepath_new \in DOMAIN store
                  /\ (comboText = "" \/ get_schema_filepath(comboText) # filepath_new)
               THEN IF confirm_overwrite = schema_name
                    THEN /\ confirm_overwrite' = ""
                         /\ perform_save(schema_data)
                    ELSE /\ confirm_overwrite' = schema_name
                         /\ UNCHANGED <<store, schemas, widgets, comboText>>
               ELSE /\ confirm_overwrite' = ""
                    /\ perform_save(schema_data)
    /\ UNCHANGED <<fs, backup_queue, current_worker, jobs, procs, posted, singleShots,
                   ctl, confirm_delete, requests, popped, env, validation, last_delete>>

-----------------------------------------------------------------------------
(* Specifications.                                                         *)

Names == {"A", "B"}
Paths == {"/a", "/b", "/d"}

InitialStore ==
    [n \in Names |->
        IF n = "A" THEN SchemaRecord("A", <<"/a">>, "/d")
                   ELSE SchemaRecord("B", <<"/b">>, "/d")]

\* output lines of rsync: a file name, and a progress line
LineFile == <<"f", "\n">>
Line50 == <<" ", "5", "0", "%", " ", "\n">>
Line100 == <<" ", "1", "0", "0", "%", " ", "\n">>
Line30 == <<" ", "3", "0", "%", " ", "\n">>
Line150 == <<" ", "1", "5", "0", "%", " ", "\n">>

\* error-stream texts of rsync: one that fits the pipe, one that names a file
\* called Cancelled, one that does not fit the pipe
Vanished == <<"file has vanished", "\n">>
ErrNamesCancelled == <<"rsync: skipping /a/", "Cancelled">>
ErrLong == [i \in 1..(PipeCap + 1) |-> "e"]

Script(out, err, code) == [out |-> out, err |-> err, code |-> code]

\* a call of validate_schema_paths(schema_data) not made yet, and made while
\* the paths of fsys existed
NoCall(schema_data) ==
    [schema_data |-> schema_data, called |-> FALSE, fsys |-> {}, result |-> <<>>]
Call(schema_data, fsys) ==
    [schema_data |-> schema_data, called |-> TRUE, fsys |-> fsys,
     result |-> validate_schema_paths(schema_data, fsys)]

\* validate_schema_paths is called with the argument at hand
Validate ==
    /\ validation' = Call(validation.schema_data, fs)
    /\ UNCHANGED <<fs, store, schemas, widgets, backup_queue, current_worker, jobs,
                   procs, posted, singleShots, ctl, comboText, confirm_delete,
                   confirm_overwrite, requests, popped, env, last_delete>>

\* What the surroundings may do in a run:
\*   budget       clicks on "Queue Selected Backup"
\*   queueable    the names the user clicks on
\*   cancellable  the jobs the user cancels, each at most `cancels` times
\*   launchable   the jobs for which Popen can succeed
\*   vanish       paths that may disappear;  appear: paths that may come back
\*   editable     the entries the user picks in the Edit tab
\*   disk         the answers of shutil.disk_usage
\*   popen        the outcomes of subprocess.Popen ("ok", or the error raised)
\*   scripts      what rsync may write and the code it exits with
\*   saves        what the user types in the Edit tab before clicking Save
\*   writes       whether writing a schema file can succeed, and can fail

\* the surroundings of the queue runs: several jobs, short transfers
QueueEnv ==
    [budget |-> MaxEnq,
     queueable |-> Names,
     cancellable |-> {1},
     cancels |-> 1,
     launchable |-> {1},
     vanish |-> {"/a"},
     appear |-> {},
     editable |-> {"A"},
     disk |-> {Disk(FALSE, free_space_threshold)},
     popen |-> {"ok"},
     scripts |-> {Script(<<>>, <<>>, 0)},
     saves |-> {},
     writes |-> {TRUE}]

\* the surroundings of the single-job runs: one click, and every outcome of
\* the disk check, of the launch and of the transfer
JobEnv ==
    [budget |-> 1,
     queueable |-> {"A"},
     cancellable |-> {1},
     cancels |-> 1,
     launchable |-> {1},
     vanish |-> {"/a", "/d"},
     appear |-> {},
     editable |-> {"A"},
     disk |-> {Disk(TRUE, 0), Disk(FALSE, free_space_threshold - 1),
               Disk(FALSE, free_space_threshold)},
     popen |-> {"ok", "FileNotFoundError", "PermissionError"},
     scripts |-> {Script(<<>>, err, code) : err \in {<<>>, Vanished}, code \in {0, 24, 1}}
                 \cup {Script(<<>>, ErrNamesCancelled, code) : code \in {24, 1}}
                 \cup {Script(<<Line150>>, <<>>, 0), Script(<<Line50, Line30>>, Vanished, 0)}
                 \cup {Script(<<Line50>>, <<>>, 0), Script(<<Line100>>, <<>>, 1),
                       Script(<<LineFile>>, ErrLong, 0)},
     saves |-> {},
     writes |-> {TRUE}]

InitWith(e) ==
    /\ fs = Paths
    /\ store = InitialStore
    /\ schemas = load_schemas(store, fs)
    /\ widgets = NewWidgets(schemas)
    /\ backup_queue = <<>>
    /\ current_worker = 0
    /\ jobs = <<>>
    /\ procs = <<>>
    /\ posted = <<>>
    /\ singleShots = 0
    /\ ctl = CtlIdle
    /\ comboText = ""
    /\ confirm_delete = ""
    /\ confirm_overwrite = ""
    /\ requests = <<>>
    /\ popped = <<>>
    /\ env = e
    /\ validation = NoCall(<<>>)
    /\ last_delete = NoDelete

Init == InitWith(QueueEnv)

Next ==
    \/ \E n \in Names : QueueSelectedBackup(n)
    \/ Tick
    \/ SingleShot
    \/ Deliver
    \/ CancelCurrentBackup
    \/ CTerminate1 \/ CTerminate2 \/ CTerminate3 \/ CTerminate5 \/ CUnwind
    \/ \E n \in Names \cup {""} : SelectCombo(n)
    \/ DeleteSelectedSchema
    \/ \E j \in DOMAIN jobs : Worker(j)
    \/ \E j \in DOMAIN procs : Process(j)
    \/ \E p \in Paths : FsChange(p)

Spec == Init /\ [][Next]_vars

\* one job, every outcome
SpecJob == InitWith(JobEnv) /\ [][Next]_vars

\* the scheduler lets every thread that can step do so, and the rsync process
\* goes on while it can
Fairness ==
    /\ WF_vars(\E j \in DOMAIN jobs : Worker(j))
    /\ WF_vars(\E j \in DOMAIN procs : Process(j))

\* the surroundings of the fair runs: one job whose rsync is silent, or writes
\* one line and more error text than the pipe holds
FairEnv ==
    [JobEnv EXCEPT !.vanish = {"/a"},
                   !.disk = {Disk(FALSE, free_space_threshold)},
                   !.popen = {"ok"},
                   !.scripts = {Script(<<>>, <<>>, 0), Script(<<LineFile>>, ErrLong, 0)}]

FairJob == InitWith(FairEnv) /\ [][Next]_vars /\ Fairness

\* the event loop of the control thread goes on: a slot that has been entered
\* runs to its end, and the recurring queue_timer fires again and again
FairControl ==
    /\ WF_vars(CTerminate1 \/ CTerminate2 \/ CTerminate3 \/ CTerminate5 \/ CUnwind)
    /\ WF_vars(Tick)

\* the surroundings of the fair queue runs: two clicks, both jobs can launch
\* rsync, which is silent or writes more error text than the pipe holds
FairQueueEnv ==
    [QueueEnv EXCEPT !.budget = 2,
                     !.launchable = {1, 2},
                     !.scripts = {Script(<<>>, <<>>, 0), Script(<<>>, ErrLong, 0)}]

FairQueue == InitWith(FairQueueEnv) /\ [][Next]_vars /\ Fairness /\ FairControl

\* the surroundings of the editing runs: two clicks, and the user saves while
\* names wait in the queue: B with a source that never exists, and a form
\* whose name is blank
EditEnv ==
    [QueueEnv EXCEPT !.budget = 2,
                     !.saves = {Form(<<"B", " ">>, <<"/c">>, <<" ", "/d">>),
                                Form(<<" ">>, <<"/a">>, <<"/d">>)},
                     !.writes = {TRUE, FALSE}]

\* the surroundings of the Edit tab runs: the user selects any entry, saves A
\* without sources, A with a blank destination, B with a new destination and
\* a new schema C, and deletes
SaveEnv ==
    [QueueEnv EXCEPT !.budget = 0,
                     !.editable = {"", "A", "B", "C"},
                     !.saves = {Form(<<"A">>, <<>>, <<"/d">>),
                                Form(<<"A">>, <<"/a">>, <<" ">>),
                                Form(<<"B">>, <<"/b">>, <<"/a", " ">>),
                                Form(<<"C">>, <<"/b">>, <<"/d">>)},
                     !.writes = {TRUE, FALSE}]

\* the longest list of sources given to validate_schema_paths
MaxSources == 2

\* the arguments of validate_schema_paths: the empty dict, and dicts with
\* or without each of the keys 'sources' and 'destination'; where a path is
\* expected stands one that can exist, one that never does, the empty string,
\* a number or null
SchemaDatas ==
    LET Lists == UNION {[1..k -> {PyStr("/a"), PyStr("/c"), PyInt("7")}] : k \in 0..MaxSources}
        Sources == {PyList(q) : q \in Lists} \cup {PyStr("/a")}
        name == [schema_name |-> PyStr("A")]
    IN {<<>>, name}
       \cup {name @@ [sources |-> s] : s \in Sources}
       \cup {name @@ [destination |-> d] : d \in {PyStr("/d"), PyNone}}
       \cup {name @@ [sources |-> s, destination |-> d] :
                 s \in Sources, d \in {PyStr("/d"), PyStr("/c"), PyStr(""), PyInt("7"), PyNone}}

\* the surroundings of the validation runs: every path may come and go
ValidateEnv == [QueueEnv EXCEPT !.vanish = Paths, !.appear = Paths]

InitValidate ==
    /\ fs \in SUBSET Paths
    /\ store = <<>>
    /\ schemas = <<>>
    /\ widgets = <<>>
    /\ backup_queue = <<>>
    /\ current_worker = 0
    /\ jobs = <<>>
    /\ procs = <<>>
    /\ posted = <<>>
    /\ singleShots = 0
    /\ ctl = CtlIdle
    /\ comboText = ""
    /\ confirm_delete = ""
    /\ confirm_overwrite = ""
    /\ requests = <<>>
    /\ popped = <<>>
    /\ env = ValidateEnv
    /\ validation \in {NoCall(schema_data) : schema_data \in SchemaDatas}
    /\ last_delete = NoDelete

NextValidate ==
    \/ Validate
    \/ \E p \in Paths : FsChange(p)

\* validate_schema_paths alone, on every argument, while paths come and go
SpecValidate == InitValidate /\ [][NextValidate]_vars

\* the surroundings of the runs with two transfers: two clicks, and rsync can
\* be launched for both jobs
TwoEnv == [QueueEnv EXCEPT !.budget = 2, !.launchable = {1, 2}]

\* two jobs, each with its rsync
SpecTwo == InitWith(TwoEnv) /\ [][Next]_vars

\* the surroundings of the runs with a cancel request for the third job: four
\* clicks, rsync can be launched for the third job, and the user clicks Cancel
\* while the third job is in the slot
CancelEnv == [QueueEnv EXCEPT !.budget = 4, !.cancellable = {3}, !.launchable = {3}]

\* three jobs, the last one cancelled
SpecCancel == InitWith(CancelEnv) /\ [][Next]_vars

NextEdit ==
    \/ Next
    \/ \E form \in env.saves : SaveCurrentSchema(form)

\* the queue, with the Edit tab in use
SpecEdit == InitWith(EditEnv) /\ [][NextEdit]_vars

\* what the user does on the Edit tab, and what happens to the paths
NextStore ==
    \/ \E n \in DOMAIN schemas \cup {""} : SelectCombo(n)
    \/ \E form \in env.saves : SaveCurrentSchema(form)
    \/ DeleteSelectedSchema
    \/ \E p \in Paths : FsChange(p)

\* the Edit tab alone: selections, saves and deletes in any order
SpecSave == InitWith(SaveEnv) /\ [][NextStore]_vars

-----------------------------------------------------------------------------
(* Properties.                                                             *)

\* the terminal events job w has emitted
Terminals(w) == SelectSeq(w.emitted, LAMBDA e : e.sig = "jobFinished")

\* the events of job j that wait for the control thread
Pending(j) == SelectSeq(posted, LAMBDA e : e.job = j)

Last(q) == q[Len(q)]

\* suf is the end of q
IsSuffix(suf, q) ==
    /\ Len(suf) <= Len(q)
    /\ SubSeq(q, Len(q) - Len(suf) + 1, Len(q)) = suf

\* the worker objects that still exist
Live == {j \in DOMAIN jobs : jobs[j].pc # "collected"}

\* where run() is once its terminal event is out
AfterTerminal == {"finally", "return", "done"}

\* where run() is between the launch of rsync and the terminal event
InTransfer == {"loop", "readline", "readwait", "poll", "stderr", "wait", "after"}

\* C1: at every moment at most one job is inside run() (entered, not yet
\* returned), whatever the interleaving of clicks, ticks, cancels, worker
\* steps and deliveries.
C1_AtMostOneActive ==
    Cardinality({j \in DOMAIN jobs : InRun(jobs[j])}) <= 1

\* C2: once a later job's worker has begun, every earlier job has returned
\* from run(), its terminal event and its thread-finished event have been
\* handled by the control thread, and its listeners are detached.
C2_NonOverlap ==
    \A j, k \in DOMAIN jobs :
        (j < k /\ jobs[k].pc # "validate") =>
            /\ ~isRunning(jobs[j])
            /\ ~jobs[j].connected
            /\ Pending(j) = <<>>

\* C3: a run emits no terminal event before its last step, exactly one once
\* it is past its last emission, and that one is the last event it emitted.
C3_OneTerminalLast ==
    \A j \in Live :
        LET w == jobs[j]
            t == Terminals(w)
        IN /\ Len(t) <= 1
           /\ (Len(t) = 1) <=> (w.pc \in AfterTerminal)
           /\ (Len(t) = 1) => Last(w.emitted).sig = "jobFinished"

\* C3 happens: a run that reported progress has ended through the handler of
\* an unexpected exception, with its terminal event last
C3_Witness ==
    \E j \in Live :
        /\ jobs[j].pc = "done"
        /\ Len(jobs[j].emitted) >= 4
        /\ \E i \in 1..Len(jobs[j].emitted) : jobs[j].emitted[i].sig = "progressUpdated"
        /\ Last(jobs[j].emitted).sig = "jobFinished"
        /\ Last(jobs[j].emitted).msg[1] = "An unexpected error occurred during backup: "

\* C4: a job whose cancel() was called while run() was between the launch
\* and the terminal event emits the cancelled terminal event
\* (False, "Cancelled") and no other.
C4_CancelledTerminal ==
    \A j \in Live :
        LET w == jobs[j]
            t == Terminals(w)
        IN (w.cancel_pc \in InTransfer /\ t # <<>>) =>
               (~t[1].ok /\ t[1].msg = <<"Cancelled">>)

\* C5: under fair scheduling every job that has entered run() eventually
\* emits its terminal event.
C5_EveryJobEnds ==
    (\E j \in DOMAIN jobs : InRun(jobs[j]) /\ jobs[j].pc \notin AfterTerminal)
        ~> (\A j \in DOMAIN jobs : jobs[j].pc \in AfterTerminal \cup {"collected"})

\* no name is twice in the pending queue
NoDuplicatePending ==
    \A i, k \in 1..Len(backup_queue) : i # k => backup_queue[i] # backup_queue[k]

\* a click for a name that is pending leaves the queue as it is
DuplicateClickKeepsQueue ==
    (/\ Len(requests') = Len(requests) + 1
     /\ \E i \in 1..Len(backup_queue) : backup_queue[i] = Last(requests').name)
        => backup_queue' = backup_queue

\* C6: every name is at most once in the pending queue, and a request to
\* enqueue a name that is pending leaves the queue unchanged.
C6_NoDuplicates ==
    []NoDuplicatePending /\ [][DuplicateClickKeepsQueue]_vars

\* C6 happens: a click for a pending name has been refused and the name is
\* still pending, once
C6_Witness ==
    \E i \in 1..Len(requests) :
        /\ requests[i].outcome = "duplicate"
        /\ Cardinality({k \in 1..Len(backup_queue) :
                            backup_queue[k] = requests[i].name}) = 1

\* whenever the queue gets shorter it is its head that left, and a job
\* started by that step is the job of that name
PopsTheHead ==
    Len(backup_queue') < Len(backup_queue) =>
        /\ backup_queue' = Tail(backup_queue)
        /\ popped' = Append(popped, Head(backup_queue))
        /\ Len(jobs') > Len(jobs) => Last(jobs').schema_name = Head(backup_queue)

\* C7: the names leave the queue in the order in which they were accepted
\* (the accepted names are the popped ones followed by the pending ones),
\* and each pop takes the head.
C7_Fifo ==
    [](Accepted(requests) = popped \o backup_queue) /\ [][PopsTheHead]_vars

\* C7 happens: two different names have been popped in the order of their
\* acceptance while a third request waits
C7_Witness ==
    /\ Len(popped) >= 2
    /\ popped[1] # popped[2]
    /\ backup_queue # <<>>
    /\ Len(jobs) >= 2

\* a source or the destination of the schema does not exist
MissingPath(schema_data, fsys) ==
    \/ schema_data.destination[2] \notin fsys
    \/ \E i \in 1..Len(schema_data.sources[2]) : schema_data.sources[2][i][2] \notin fsys

\* the step that validates with a path missing emits the start message, one
\* validation-error event and the terminal event, and goes to the return
ValidationFailureStep ==
    \A j \in DOMAIN jobs :
        (/\ jobs[j].pc = "validate"
         /\ jobs'[j].pc # "validate"
         /\ MissingPath(jobs[j].schema_data, fs)) =>
            /\ jobs'[j].pc = "return"
            /\ Len(jobs'[j].emitted) = 3
            /\ jobs'[j].emitted[1].sig = "logMessage"
            /\ jobs'[j].emitted[2].sig = "validationError"
            /\ jobs'[j].emitted[3] =
                   EvFinished(j, jobs[j].schema_name, FALSE, <<"Path validation failed">>)
            /\ procs'[j].st = "none"

\* a job that ended with "Path validation failed" never has a subprocess
ValidationFailureNoLaunch ==
    \A j \in Live :
        (\E i \in 1..Len(jobs[j].emitted) :
             jobs[j].emitted[i].msg = <<"Path validation failed">>) =>
            /\ procs[j].st = "none"
            /\ ~jobs[j].process

\* C8: when a source or the destination is missing as the job validates, the
\* job emits one validation-error event, then the terminal event
\* (False, "Path validation failed"), and no subprocess is launched for it.
C8_ValidationFailure ==
    [][ValidationFailureStep]_vars /\ []ValidationFailureNoLaunch

\* C8 happens: a job whose source vanished after it was queued has ended
\* with the validation failure and without a subprocess
C8_Witness ==
    \E j \in Live :
        /\ "/a" \notin fs
        /\ "/d" \in fs
        /\ jobs[j].pc = "done"
        /\ Len(jobs[j].emitted) = 3
        /\ Last(jobs[j].emitted).msg = <<"Path validation failed">>
        /\ procs[j].st = "none"

\* the two events a failed disk check adds: an error event, then a failed
\* terminal event with the given status
DiskFailure(j, before, after, status) ==
    /\ after.pc = "return"
    /\ Len(after.emitted) = Len(before.emitted) + 2
    /\ after.emitted[Len(after.emitted) - 1].sig \in {"diskSpaceError", "validationError"}
    /\ Last(after.emitted).sig = "jobFinished"
    /\ ~Last(after.emitted).ok
    /\ status # <<>> => Last(after.emitted).msg = status
    /\ procs'[j].st = "none"

\* the step that checks the disk
DiskCheckStep ==
    \A j \in DOMAIN jobs :
        (jobs[j].pc = "space" /\ jobs'[j].pc # "space") =>
            LET destination == jobs[j].schema_data.destination[2]
                usage == jobs'[j].usage
            IN IF destination \notin fs THEN DiskFailure(j, jobs[j], jobs'[j], <<>>)
               ELSE IF usage.err THEN DiskFailure(j, jobs[j], jobs'[j], <<>>)
               ELSE IF usage.free < 104857600
                    THEN DiskFailure(j, jobs[j], jobs'[j], <<"Insufficient disk space">>)
                    ELSE jobs'[j].pc = "launch"

\* a job has a subprocess, or is about to launch one, only after a reading of
\* at least 100 MiB
LaunchOnlyWithSpace ==
    \A j \in Live :
        (procs[j].st # "none" \/ jobs[j].process \/ jobs[j].pc = "launch") =>
            (~jobs[j].usage.err /\ jobs[j].usage.free >= 104857600)

\* C9: after validation the subprocess is launched only with at least
\* 104857600 bytes free; below that the job emits an error event and
\* (False, "Insufficient disk space"); when the destination is gone or the
\* check raises, an error event and a failed terminal event; and in these
\* three cases nothing is launched.
C9_DiskCheck ==
    [][DiskCheckStep]_vars /\ []LaunchOnlyWithSpace

\* C9 happens: a job that read one byte less than the threshold has ended
\* with "Insufficient disk space" and without a subprocess
C9_Witness ==
    \E j \in Live :
        /\ jobs[j].pc = "done"
        /\ jobs[j].usage = Disk(FALSE, 104857599)
        /\ Last(jobs[j].emitted) =
               EvFinished(j, jobs[j].schema_name, FALSE, <<"Insufficient disk space">>)
        /\ procs[j].st = "none"

\* C10: a job that was never cancelled and whose subprocess has exited by
\* itself has a terminal event fixed by the exit code: 0 gives
\* (True, "Completed"); 24 gives success with a status that starts with
\* "Completed with warnings" and ends with the (trimmed) error text; any other
\* code gives a failure whose status holds the code and ends with the
\* (trimmed) error text.
C10_ExitCode ==
    \A j \in Live :
        LET w == jobs[j]
            p == procs[j]
            t == Last(w.emitted)
        IN (w.pc = "finally" /\ w.cancels = 0 /\ p.st = "dead") =>
              /\ t.sig = "jobFinished"
              /\ CASE p.code = 0 -> t.ok /\ t.msg = <<"Completed">>
                   [] p.code = 24 ->
                        /\ t.ok
                        /\ t.msg[1] = "Completed with warnings"
                        /\ IsSuffix(Strip(p.wrote), t.msg)
                   [] OTHER ->
                        /\ ~t.ok
                        /\ Contains(t.msg, ToString(p.code))
                        /\ IsSuffix(Strip(p.wrote), t.msg)

\* C10 happens: rsync wrote "file has vanished" and exited with 24, nobody
\* cancelled, and the job reported success with warnings
C10_Witness ==
    \E j \in Live :
        /\ jobs[j].pc = "finally"
        /\ jobs[j].cancels = 0
        /\ procs[j].st = "dead"
        /\ procs[j].code = 24
        /\ procs[j].wrote = Vanished
        /\ Last(jobs[j].emitted).ok
        /\ Contains(Last(jobs[j].emitted).msg, "file has vanished")

\* the events job j emits in this step
Added(j) ==
    SubSeq(jobs'[j].emitted, Len(jobs[j].emitted) + 1, Len(jobs'[j].emitted))

\* the step that emits a terminal event emits a progress event of 100 right
\* before it when the event says success, and no progress event otherwise
ForcedProgressStep ==
    \A j \in DOMAIN jobs :
        (/\ Len(jobs'[j].emitted) > Len(jobs[j].emitted)
         /\ Last(jobs'[j].emitted).sig = "jobFinished") =>
            IF Last(jobs'[j].emitted).ok
            THEN /\ Len(Added(j)) >= 2
                 /\ Added(j)[Len(Added(j)) - 1].sig = "progressUpdated"
                 /\ Added(j)[Len(Added(j)) - 1].val = 100
            ELSE \A i \in 1..Len(Added(j)) : Added(j)[i].sig # "progressUpdated"

\* the last progress event of a job that succeeded is the one of 100 that
\* stands right before the terminal event
LastProgressIs100 ==
    \A j \in Live :
        LET em == jobs[j].emitted
        IN (Terminals(jobs[j]) # <<>> /\ Terminals(jobs[j])[1].ok) =>
              /\ Len(em) >= 2
              /\ em[Len(em) - 1].sig = "progressUpdated"
              /\ em[Len(em) - 1].val = 100
              /\ \A i \in 1..Len(em) :
                    em[i].sig = "progressUpdated" => i <= Len(em) - 1

\* C11: a job whose terminal event says success (with or without warnings)
\* emits a progress event of 100 before it, and that is its last progress
\* event; the step that emits a failed or cancelled terminal event forces no
\* progress event.
C11_ForcedProgress ==
    [][ForcedProgressStep]_vars /\ []LastProgressIs100

\* C11 happens: a job that reported 50 has succeeded with 100 forced before
\* its terminal event
C11_Witness ==
    \E j \in Live :
        LET em == jobs[j].emitted
        IN /\ jobs[j].pc = "finally"
           /\ Len(em) >= 3
           /\ Last(em).sig = "jobFinished" /\ Last(em).ok
           /\ em[Len(em) - 1].val = 100
           /\ \E i \in 1..(Len(em) - 2) : em[i].sig = "progressUpdated" /\ em[i].val = 50

\* C12: a cancel() called on a job that has already emitted its terminal
\* event is a no-op: no error leaves cancel(), the job's process is sent no
\* signal and the job emits no second terminal event.
C12_CancelAfterTerminal ==
    \A j \in Live :
        jobs[j].cancel_pc \in {"finally", "return"} =>
            /\ ~(ctl.pc = "raised" /\ ctl.job = j)
            /\ ~procs[j].signalled
            /\ Len(Terminals(jobs[j])) <= 1

\* C13: no error leaves cancel() or terminate_process() on the control
\* thread, whatever the worker does meanwhile: the control thread is never
\* unwinding an exception out of the cancel slot.
C13_NoErrorEscapes ==
    ctl.pc # "raised"

\* a click for a schema with a path that does not exist now leaves the queue
\* as it is
InvalidClickKeepsQueue ==
    (/\ Len(requests') = Len(requests) + 1
     /\ MissingPath(schemas[Last(requests').name], fs))
        => (backup_queue' = backup_queue /\ Last(requests').outcome = "invalid")

\* C14: a request to enqueue a schema one of whose sources, or whose
\* destination, does not exist at the time of the request is refused: the
\* queue is unchanged and the request is answered as invalid.
C14_InvalidRefused ==
    [][InvalidClickKeepsQueue]_vars

\* C15: the Job started at a pop carries the sources and the destination of
\* the record the schema store holds for the popped name at that moment, the
\* most recently saved one, whatever was saved or deleted since the name was
\* queued; and a name whose record has been deleted starts no Job.
PopBindsStore ==
    Len(popped') = Len(popped) + 1 =>
        LET n == Last(popped')
        IN IF n \in DOMAIN store
           THEN /\ Len(jobs') = Len(jobs) + 1
                /\ current_worker' = Len(jobs')
                /\ jobs'[Len(jobs')].schema_name = n
                /\ jobs'[Len(jobs')].schema_data.sources = store[n].sources
                /\ jobs'[Len(jobs')].schema_data.destination = store[n].destination
           ELSE /\ Len(jobs') = Len(jobs)
                /\ current_worker' = current_worker

C15_BoundAtPop == [][PopBindsStore]_vars

\* A was deleted and B saved with another source while both waited in the
\* queue: the pop of A started nothing, the pop of B started the saved record
C15_Witness ==
    /\ popped = <<"A", "B">>
    /\ "A" \notin DOMAIN store
    /\ Len(jobs) = 1
    /\ jobs[1].schema_name = "B"
    /\ jobs[1].schema_data.sources = PyList(<<PyStr("/c")>>)

\* the sources of a schema that do not exist: the places in the list
MissingSources(sources, fsys) ==
    {i \in 1..Len(sources) : ~IsStr(sources[i]) \/ sources[i][2] \notin fsys}

\* the entries of a problems list that equal e
Count(problems, e) == Cardinality({k \in 1..Len(problems) : problems[k] = e})

\* C16: validate_schema_paths answers is_valid = True exactly when its list of
\* problems is empty; for a schema with a list of sources the list holds one
\* entry naming each source that does not exist, one entry for the
\* destination when it is absent or does not exist, and nothing else; and when
\* every listed path exists the answer is (True, []).
C16_Validate ==
    validation.called =>
        LET schema_data == validation.schema_data
            fsys == validation.fsys
            is_valid == validation.result[1]
            problems == validation.result[2]
        IN /\ is_valid = (problems = <<>>)
           /\ ("sources" \in DOMAIN schema_data /\ IsList(schema_data.sources)) =>
                LET sources == schema_data.sources[2]
                    missing == MissingSources(sources, fsys)
                    absent == \/ "destination" \notin DOMAIN schema_data
                              \/ schema_data.destination \in {PyNone, PyStr("")}
                              \/ ~IsStr(schema_data.destination)
                    gone == ~absent /\ schema_data.destination[2] \notin fsys
                IN /\ Len(problems) = Cardinality(missing)
                                        + (IF absent \/ gone THEN 1 ELSE 0)
                   /\ \A i \in missing :
                        Count(problems, <<"Source: ", sources[i]>>)
                            = Cardinality({k \in missing : sources[k] = sources[i]})
                   /\ absent => Count(problems, <<"Destination path is missing or invalid">>) = 1
                   /\ gone => Count(problems, <<"Destination: ", schema_data.destination>>) = 1
                   /\ (missing = {} /\ ~absent /\ ~gone) => validation.result = <<TRUE, <<>> >>

\* a schema was validated while every path of the filesystem existed: one of
\* its two sources and its destination do not exist, and two problems came back
C16_Witness ==
    /\ validation.called
    /\ validation.schema_data = [schema_name |-> PyStr("A"),
                                 sources |-> PyList(<<PyStr("/a"), PyStr("/c")>>),
                                 destination |-> PyStr("/c")]
    /\ validation.fsys = Paths
    /\ Len(validation.result[2]) = 2

\* the terminal event of the cancelled outcome
IsCancelledTerminal(e) == e.sig = "jobFinished" /\ ~e.ok /\ e.msg = <<"Cancelled">>

\* the controller handles a terminal event: the state it gives the list item
\* is "cancelled" exactly when the event is the cancelled outcome
ClassifiedStep ==
    (/\ posted # <<>>
     /\ posted' = Tail(posted)
     /\ Head(posted).sig = "jobFinished"
     /\ Head(posted).name \in DOMAIN widgets) =>
        (widgets'[Head(posted).name].state = "cancelled"
            <=> IsCancelledTerminal(Head(posted)))

\* C17: the controller classifies a finished Job as cancelled if and only if
\* its terminal event is the cancelled outcome: a failed or a
\* success-with-warnings terminal event is never classified as cancelled,
\* whatever error text it carries, and a cancelled one never as failed.
C17_Classification == [][ClassifiedStep]_vars

\* the controller handles a thread's `finished` signal while the slot holds a
\* Job: that Job is the one whose thread finished
FinishedStep ==
    (/\ posted # <<>>
     /\ posted' = Tail(posted)
     /\ Head(posted).sig = "finished"
     /\ current_worker # 0) =>
        /\ current_worker = Head(posted).job
        /\ ~isRunning(jobs[current_worker])

\* C18: worker_thread_finished detaches the listeners of, and clears the slot
\* of, only the Job whose thread has finished, never a different Job that was
\* started in the slot meanwhile and is still running.
C18_ClearsOwnJob == [][FinishedStep]_vars

\* where run() dereferences self._process: stdout.readline(), poll(),
\* stderr.read() and wait()
UsesHandle == {"readline", "poll", "stderr", "wait"}

\* a step of the worker thread that dereferences the handle finds it set
HandleUseStep ==
    \A j \in DOMAIN jobs :
        (jobs[j].pc \in UsesHandle /\ jobs'[j].pc # jobs[j].pc) => jobs[j].process

\* C19: the worker thread never uses a subprocess handle that has been
\* cleared, whenever the control thread's cancel() clears it: while the worker
\* launches, is blocked in readline, polls, drains the error stream or waits.
C19_HandleNeverCleared == [][HandleUseStep]_vars

\* the rsync processes that have been launched and have not exited
Alive == {j \in DOMAIN procs : procs[j].st = "running"}

\* C20: at most one rsync process is alive at any instant: the process of a
\* new Job is never launched while the process of an earlier Job, one that
\* was sent the termination signal included, has not yet exited.
C20_OneSubprocess == Cardinality(Alive) <= 1

\* the Job in the slot, if any, has ended
SlotJobEnded == current_worker = 0 \/ jobs[current_worker].pc \in {"done", "collected"}

\* C21: under a fair recurring tick, and as long as the Job in the slot always
\* ends, every name accepted into the pending queue is eventually popped: no
\* accepted name stays pending forever.  (What a pop does with the name, start
\* a Job or skip it, is PopBindsStore.)
C21_EventuallyPopped ==
    []<>SlotJobEnded =>
        \A n \in Names : (\E i \in 1..Len(backup_queue) : backup_queue[i] = n)
                            ~> (\A i \in 1..Len(backup_queue) : backup_queue[i] # n)

\* both accepted names have been popped, the second after the first Job ended
C21_Witness ==
    /\ Accepted(requests) = <<"A", "B">>
    /\ popped = <<"A", "B">>
    /\ Len(jobs) = 2
    /\ jobs[1].pc \in {"done", "collected"}

\* handle_job_finished has processed the terminal event of job j
TerminalHandled(j) ==
    /\ Terminals(jobs[j]) # <<>>
    /\ \A i \in 1..Len(posted) : ~(posted[i].job = j /\ posted[i].sig = "jobFinished")

\* a step that takes the listeners from a Job, or takes the Job out of the
\* slot, comes after the Job's terminal event has been handled
ReleaseStep ==
    \A j \in DOMAIN jobs :
        (\/ jobs[j].connected /\ ~jobs'[j].connected
         \/ current_worker = j /\ current_worker' # j) => TerminalHandled(j)

\* C22: the controller detaches the listeners of a Job and empties the slot
\* after the Job has emitted its terminal event, and only once
\* handle_job_finished has processed that event; then the queue is looked at
\* again.
C22_ReleaseAfterTerminal == [][ReleaseStep]_vars

\* a pop of a name that is not among the loaded schemas: only that entry
\* leaves the queue, nothing is started, and one re-check is scheduled
SkipStep ==
    (Len(popped') = Len(popped) + 1 /\ Last(popped') \notin DOMAIN schemas) =>
        /\ backup_queue # <<>>
        /\ Last(popped') = backup_queue[1]
        /\ backup_queue' = SubSeq(backup_queue, 2, Len(backup_queue))
        /\ jobs' = jobs
        /\ current_worker' = current_worker
        /\ singleShots' >= 1
        /\ singleShots' <= singleShots + 1

\* re-checks are scheduled by skips and by ended threads only, one each
BoundedRetries == singleShots <= Len(popped) + Len(jobs)

\* C23: when the popped head name is not a loaded schema any more, the tick
\* removes that one entry, starts no Job, leaves the rest of the queue in
\* order and schedules exactly one short-delay re-check of the queue; the
\* re-checks do not multiply.
C23_SkipUnresolved == [][SkipStep]_vars /\ []BoundedRetries

\* the head A was deleted while it waited: it was popped and skipped, B is
\* still queued behind it and one re-check is pending
C23_Witness ==
    /\ popped = <<"A">>
    /\ "A" \notin DOMAIN schemas
    /\ jobs = <<>>
    /\ backup_queue = <<"B">>
    /\ singleShots = 1

\* every accepted enqueue is pending or has been popped, and every Job was
\* started by a pop of its own
EnqueuesAccounted ==
    /\ Len(Accepted(requests)) = Len(backup_queue) + Len(popped)
    /\ Len(jobs) <= Len(popped)

\* the queue grows by a click only, and a Job is started by a pop only: no
\* step puts a name back or starts a Job for a name popped earlier
NoRestartStep ==
    /\ Len(backup_queue') > Len(backup_queue) =>
          /\ Len(requests') = Len(requests) + 1
          /\ backup_queue' = Append(backup_queue, Last(requests').name)
    /\ Len(jobs') # Len(jobs) =>
          /\ Len(jobs') = Len(jobs) + 1
          /\ Len(popped') = Len(popped) + 1
          /\ jobs'[Len(jobs')].schema_name = Last(popped')

\* C24: a Job that ends failed, validation-failed or cancelled is never
\* re-queued or restarted: the accepted enqueues are as many as the pending
\* entries, the Jobs started and the entries skipped together, so each
\* accepted enqueue leads to at most one Job.
C24_NoRetry == []EnqueuesAccounted /\ [][NoRestartStep]_vars

\* three enqueues were accepted: B's Job has ended failed or cancelled, A
\* was skipped, and B, queued again by a click, is pending
C24_Witness ==
    /\ Len(Accepted(requests)) = 3
    /\ popped = <<"B", "A">>
    /\ backup_queue = <<"B">>
    /\ Len(jobs) = 1
    /\ jobs[1].pc \in {"done", "collected"}
    /\ widgets["B"].state \in {"failed", "cancelled"}

\* the values of the progress events in a sequence of events
RECURSIVE ProgressValues(_)
ProgressValues(evs) ==
    IF evs = <<>> THEN <<>>
    ELSE (IF Head(evs).sig = "progressUpdated" THEN <<Head(evs).val>> ELSE <<>>)
         \o ProgressValues(Tail(evs))

\* C25: every progress event a Job emits carries an integer from 0 to 100,
\* whatever lines rsync writes, a line whose digits before the percent sign
\* form a number above 100 included.
C25_ProgressInRange ==
    \A j \in Live :
        \A i \in 1..Len(ProgressValues(jobs[j].emitted)) :
            ProgressValues(jobs[j].emitted)[i] \in 0..100

\* C26: in a Job that ends in success or success-with-warnings the progress
\* values emitted never decrease, whatever lines rsync writes.
C26_ProgressMonotonic ==
    \A j \in Live :
        (Terminals(jobs[j]) # <<>> /\ Terminals(jobs[j])[1].ok) =>
            LET v == ProgressValues(jobs[j].emitted)
            IN \A i \in 1..(Len(v) - 1) : v[i] <= v[i + 1]

\* job j has logged the drained error stream
StderrLogged(j) ==
    \E i \in 1..Len(jobs[j].emitted) :
        /\ jobs[j].emitted[i].sig = "logMessage"
        /\ jobs[j].emitted[i].msg # <<>>
        /\ jobs[j].emitted[i].msg[1] = "STDERR: "

\* the worker takes a line from the pipe: it is the oldest line written and
\* not yet read, it yields one log event of the line, then a progress event
\* when the line matches the pattern and none when it does not, and the error
\* stream has not been logged yet
LineStep ==
    \A j \in DOMAIN jobs :
        (jobs[j].pc = "readwait" /\ jobs'[j].pc = "loop") =>
            LET line == procs[j].opipe[1]
                new == Added(j)
            IN /\ procs[j].opipe # <<>>
               /\ procs'[j].opipe = SubSeq(procs[j].opipe, 2, Len(procs[j].opipe))
               /\ Len(new) \in {1, 2}
               /\ new[1].sig = "logMessage" /\ new[1].msg = Strip(line)
               /\ (Len(new) = 2) <=> ParseProgress(line)[1]
               /\ Len(new) = 2 =>
                     new[2].sig = "progressUpdated" /\ new[2].val = ParseProgress(line)[2]
               /\ ~StderrLogged(j)

\* rsync writes to the pipe at its end, and only the worker takes from it
PipeStep ==
    \A j \in DOMAIN procs :
        (procs'[j].opipe # procs[j].opipe /\ procs'[j].st # "reaped") =>
            \/ /\ procs[j].out # <<>>
               /\ procs'[j].opipe = Append(procs[j].opipe, procs[j].out[1])
            \/ /\ jobs[j].pc = "readwait"
               /\ procs'[j].opipe = SubSeq(procs[j].opipe, 2, Len(procs[j].opipe))

\* C27: the log and progress events of a Job come in the order in which rsync
\* produced the lines: each line read yields one log event, followed by a
\* progress event only when the line matches the percentage pattern, the
\* events of a line precede those of the next, and the log event of the
\* drained error stream comes after all of them.
C27_LineOrder == [][LineStep /\ PipeStep]_vars

\* rsync wrote a 50% line and a 30% line: the Job emitted log, progress 50,
\* log, progress 30, and then logged the drained error stream
C27_Witness ==
    \E j \in Live :
        LET em == jobs[j].emitted
            k == Len(em)
        IN /\ k >= 5
           /\ em[k].sig = "logMessage" /\ em[k].msg[1] = "STDERR: "
           /\ em[k - 1].sig = "progressUpdated" /\ em[k - 1].val = 30
           /\ em[k - 2].sig = "logMessage" /\ em[k - 2].msg = Strip(Line30)
           /\ em[k - 3].sig = "progressUpdated" /\ em[k - 3].val = 50
           /\ em[k - 4].sig = "logMessage" /\ em[k - 4].msg = Strip(Line50)

\* the phase a Job is in: 1 Pending or Validating, 2 SpaceChecking, 3 both
\* checks passed and about to launch, 4 Running, 5 terminal
PhaseOf(w) ==
    CASE w.pc = "validate" -> 1
      [] w.pc = "space" -> 2
      [] w.pc = "launch" -> 3
      [] w.pc \in InTransfer \cup {"tp1", "tp2", "tp3", "tp5"} -> 4
      [] OTHER -> 5

\* a step moves a Job to the next phase or to its end, never back; it enters
\* the disk-space check with every path of the schema existing, is about to
\* launch with a reading of at least 100 MiB free, and launches from there
PhaseStep ==
    \A j \in DOMAIN jobs' :
        IF j \notin DOMAIN jobs
        THEN jobs'[j].pc = "validate" /\ procs'[j].st = "none"
        ELSE /\ PhaseOf(jobs'[j]) \in {PhaseOf(jobs[j]), PhaseOf(jobs[j]) + 1, 5}
             /\ (jobs[j].pc # "space" /\ jobs'[j].pc = "space") =>
                    /\ jobs[j].pc = "validate"
                    /\ ~MissingPath(jobs[j].schema_data, fs)
             /\ (jobs[j].pc # "launch" /\ jobs'[j].pc = "launch") =>
                    /\ jobs[j].pc = "space"
                    /\ ~jobs'[j].usage.err /\ jobs'[j].usage.free >= 104857600
             /\ (procs[j].st = "none" /\ procs'[j].st # "none") =>
                    /\ jobs[j].pc = "launch"
                    /\ PhaseOf(jobs'[j]) = 4

\* a Job that ended in success, with warnings or cancelled had launched rsync
RanBeforeEnding ==
    \A j \in Live :
        \A i \in 1..Len(Terminals(jobs[j])) :
            LET t == Terminals(jobs[j])[i]
            IN (t.ok \/ t.msg = <<"Cancelled">>) => procs[j].st # "none"

\* C28: a Job goes through its phases in the order Pending, Validating,
\* SpaceChecking, Running, terminal: the disk-space check comes only after
\* validation passed, rsync is launched only after both checks passed, and
\* the Success, SuccessWithWarnings and Cancelled terminal events come only
\* from a Job that reached Running.
C28_PhaseOrder == [][PhaseStep]_vars /\ []RanBeforeEnding

\* a Job that was cancelled before it validated went through both checks,
\* launched rsync and ended cancelled
C28_Witness ==
    \E j \in Live :
        /\ jobs[j].cancel_pc = "validate"
        /\ jobs[j].pc = "done"
        /\ Terminals(jobs[j]) # <<>>
        /\ Terminals(jobs[j])[1].msg = <<"Cancelled">>
        /\ procs[j].st # "none"

\* a step keeps the flag of every worker object that still exists once it is
\* up, raises it only as the first statement of cancel() on that object, and
\* a worker object is created with the flag down
FlagStep ==
    /\ \A j \in DOMAIN jobs :
          /\ j \in DOMAIN jobs'
          /\ (jobs[j].cancelled /\ jobs'[j].pc # "collected") => jobs'[j].cancelled
          /\ (~jobs[j].cancelled /\ jobs'[j].cancelled) =>
                /\ current_worker = j
                /\ ctl.pc = "idle"
                /\ ctl' = [pc |-> "tp1", job |-> j]
                /\ jobs'[j].cancels = jobs[j].cancels + 1
    /\ \A j \in DOMAIN jobs' \ DOMAIN jobs : ~jobs'[j].cancelled

\* the flag is up exactly on the objects cancel() was called on
FlagFollowsCancel == \A j \in Live : jobs[j].cancelled <=> jobs[j].cancels > 0

\* C29: a Job's cancellation flag is monotonic: it starts false, only cancel()
\* sets it to true, and once true it is never reset to false for the rest of
\* that Job's life.
C29_FlagMonotonic == [][FlagStep]_vars /\ []FlagFollowsCancel

\* a cancelled Job has emitted its terminal event and ended, the flag still up
C29_Witness ==
    \E j \in Live :
        /\ jobs[j].cancelled
        /\ jobs[j].pc = "done"
        /\ Terminals(jobs[j]) # <<>>
        /\ Last(Terminals(jobs[j])).msg = MsgCancelled

\* the events job j emits in this step
NewEvents(j) == SubSeq(jobs'[j].emitted, Len(jobs[j].emitted) + 1, Len(jobs'[j].emitted))

\* a step that emits the cancelled terminal event of a Job finds cancel()
\* already called on it
CancelledStep ==
    \A j \in DOMAIN jobs :
        (/\ Len(jobs'[j].emitted) > Len(jobs[j].emitted)
         /\ \E i \in 1..Len(NewEvents(j)) : IsCancelledTerminal(NewEvents(j)[i])) =>
            (jobs[j].cancelled /\ jobs[j].cancels > 0)

\* a Job whose flag was never set has no cancelled terminal event
NeverSetNeverCancelled ==
    \A j \in Live :
        jobs[j].cancels = 0 =>
            \A i \in 1..Len(jobs[j].emitted) : ~IsCancelledTerminal(jobs[j].emitted[i])

\* C30: a Job emits the "Cancelled" terminal event only if cancel() was called
\* on that Job before the event: a Job whose cancellation flag was never set
\* never ends as cancelled.
C30_CancelledOnlyAfterCancel == [][CancelledStep]_vars /\ []NeverSetNeverCancelled

\* one Job has ended as cancelled
C30_Witness ==
    \E j \in Live :
        /\ Terminals(jobs[j]) # <<>>
        /\ IsCancelledTerminal(Last(Terminals(jobs[j])))
        /\ jobs[j].cancels > 0

\* the Job a step of cancel_current_backup works on: the one cancel() was
\* called on
CancelTarget == IF ctl.pc = "idle" THEN ctl'.job ELSE ctl.job

\* a step of cancel_current_backup or of the cancel() it calls
CancelStep ==
    ctl' # ctl =>
        /\ backup_queue' = backup_queue
        /\ current_worker' = current_worker
        /\ popped' = popped
        /\ DOMAIN jobs' = DOMAIN jobs
        /\ \A k \in DOMAIN jobs \ {CancelTarget} : jobs'[k] = jobs[k] /\ procs'[k] = procs[k]
        /\ ctl.pc = "idle" =>
              /\ CancelTarget = current_worker
              /\ jobs[CancelTarget].pc \notin {"done", "collected"}

\* a cancellation flag goes up only on the Job that is in the slot and
\* running, the queue and the slot staying as they are
RaiseStep ==
    \A j \in DOMAIN jobs :
        (j \in DOMAIN jobs' /\ ~jobs[j].cancelled /\ jobs'[j].cancelled) =>
            /\ current_worker = j
            /\ jobs[j].pc \notin {"done", "collected"}
            /\ backup_queue' = backup_queue
            /\ current_worker' = current_worker

\* C31: a cancel request leaves the pending queue unchanged in content and
\* order and acts only on the Job that is running at that moment; when no
\* Job is running it changes neither the queue nor the active-job slot nor
\* any Job's cancellation flag.
C31_CancelFrame == [][CancelStep /\ RaiseStep]_vars

\* cancel() is at work on the Job in the slot while a name waits in the queue
\* and an earlier Job is still running
C31_Witness ==
    /\ ctl.pc = "tp5"
    /\ ctl.job = current_worker
    /\ backup_queue # <<>>
    /\ \E k \in DOMAIN jobs : k # ctl.job /\ jobs[k].pc \notin {"done", "collected"}

\* where run() is before subprocess.Popen has been called
PreFlight == {"validate", "space", "launch"}

\* the Jobs whose first cancel() came during pre-flight and that have emitted
\* their terminal event
CancelledInPreFlight ==
    {j \in Live : jobs[j].cancel_pc \in PreFlight /\ Terminals(jobs[j]) # <<>>}

\* the events that report a line of rsync's output
LineReports(w) ==
    SelectSeq(w.emitted, LAMBDA e : \/ e.sig = "progressUpdated"
                                    \/ /\ e.sig = "logMessage"
                                       /\ e.msg # <<>>
                                       /\ e.msg[1] \notin {"Starting backup for '", "Running: "})

\* C32: if cancel() is called while the Job is still in pre-flight, the
\* pre-flight outcome is unaffected: a validation or disk-space failure still
\* yields its failed terminal event, and when pre-flight passes the subprocess
\* is still launched and is then terminated at the first iteration of the read
\* loop, the Job ending with the "Cancelled" terminal event and no line log or
\* progress events.
C32_CancelInPreFlight ==
    \A j \in CancelledInPreFlight :
        LET t == Last(Terminals(jobs[j]))
        IN IF procs[j].st = "none"
           THEN ~t.ok /\ t.msg \in {MsgValidation, MsgNoSpace, MsgDestNotFound,
                                     MsgDiskError, MsgNoRsync}
                                    \cup {MsgUnexpected(e) : e \in {"PermissionError"}}
           ELSE /\ t.msg = MsgCancelled
                /\ LineReports(jobs[j]) = <<>>

\* a click on "Queue Selected Backup" for a valid schema is accepted exactly
\* when the name is not waiting in the queue, whatever Jobs exist
AcceptStep ==
    Len(requests') = Len(requests) + 1 =>
        LET r == Last(requests')
        IN /\ (r.outcome = "queued") <=>
                (widgets[r.name].is_valid
                 /\ \A i \in 1..Len(backup_queue) : backup_queue[i] # r.name)
           /\ backup_queue' = IF r.outcome = "queued"
                              THEN backup_queue \o <<r.name>> ELSE backup_queue

\* a Job is started for a schema only when no earlier Job of that schema is
\* still running
RunAgainStep ==
    Len(jobs') = Len(jobs) + 1 =>
        \A k \in DOMAIN jobs :
            jobs[k].schema_name = jobs'[Len(jobs')].schema_name =>
                jobs[k].pc \in {"done", "collected"}

\* C33: the duplicate check of enqueue is made against the pending queue
\* only: a name whose Job is currently active (already popped) is accepted and
\* appended, so a schema can be pending while a Job for the same schema is
\* running, and it is then run again after the active Job ends.
C33_PendingWhileActive == [][AcceptStep /\ RunAgainStep]_vars

\* a Job is created with the schema as it is loaded at that moment
SnapshotStep ==
    Len(jobs') = Len(jobs) + 1 =>
        LET w == jobs'[Len(jobs')]
        IN /\ w.schema_name \in DOMAIN schemas
           /\ w.schema_data = schemas[w.schema_name]

\* no step changes the schema a worker object holds
KeepsSnapshotStep ==
    \A j \in DOMAIN jobs :
        (jobs[j].pc # "collected" /\ jobs'[j].pc # "collected") =>
            /\ jobs'[j].schema_data = jobs[j].schema_data
            /\ jobs'[j].schema_name = jobs[j].schema_name

\* the command a Job reports is made of the sources and the destination it holds
CommandFromSnapshot ==
    \A j \in Live :
        \A i \in 1..Len(jobs[j].emitted) :
            LET e == jobs[j].emitted[i]
                d == jobs[j].schema_data
            IN (e.sig = "logMessage" /\ e.msg # <<>> /\ e.msg[1] = "Running: ") =>
                  e.msg = <<"Running: ", "rsync", "-a", "--info=progress2", "--no-i-r">>
                          \o [k \in 1..Len(d.sources[2]) |-> d.sources[2][k][2]]
                          \o <<d.destination[2]>>

\* C34: a Job's sources and destination are the snapshot taken when the Job
\* was started: saving an edited version of the schema, deleting the schema,
\* or reloading the schema list while the Job is running leaves the running
\* Job's sources and destination unchanged.
C34_Snapshot == [][SnapshotStep /\ KeepsSnapshotStep]_vars /\ []CommandFromSnapshot

\* a Job has reported its command after its schema was saved with other sources
C34_Witness ==
    \E j \in Live :
        /\ jobs[j].schema_name \in DOMAIN store
        /\ store[jobs[j].schema_name].sources # jobs[j].schema_data.sources
        /\ \E i \in 1..Len(jobs[j].emitted) :
              /\ jobs[j].emitted[i].msg # <<>>
              /\ jobs[j].emitted[i].msg[1] = "Running: "

\* the terminal event of the success-with-warnings outcome
IsWarningTerminal(e) ==
    e.sig = "jobFinished" /\ e.ok /\ e.msg # <<>> /\ e.msg[1] = "Completed with warnings"

\* the controller handles the terminal event of a Job that ended with
\* warnings: the list item of its schema is left in the "warning" state
WarningStep ==
    (/\ posted # <<>>
     /\ posted' = Tail(posted)
     /\ IsWarningTerminal(Head(posted))
     /\ Head(posted).name \in DOMAIN widgets) =>
        widgets'[Head(posted).name].state = "warning"

\* C35: when a Job ends with the success-with-warnings outcome (exit code
\* 24), handle_job_finished leaves that schema's list item in the "warning"
\* final state of set_status, distinct from the plain "success" state; the four
\* final display states success, warning, failed and cancelled are each
\* reachable from the matching terminal outcome.
C35_WarningState == [][WarningStep]_vars

\* a stored schema record has at least one source and a destination
Persistable(r) ==
    /\ "sources" \in DOMAIN r /\ r.sources[2] # <<>>
    /\ "destination" \in DOMAIN r /\ r.destination[2] # ""

\* a step that writes a record writes one that has sources and a destination
SaveStep ==
    \A n \in DOMAIN store' :
        (n \notin DOMAIN store \/ store'[n] # store[n]) => Persistable(store'[n])

\* C36: after any sequence of save operations, no schema record with an
\* empty source list or an empty destination exists in the store: a save
\* request for such a schema is rejected and leaves the store unchanged.
C36_NeverPersistsEmpty ==
    [][SaveStep]_vars /\ [](\A n \in DOMAIN store : Persistable(store[n]))

\* B has been saved over and a new schema C has been saved
C36_Witness ==
    /\ "C" \in DOMAIN store
    /\ "B" \in DOMAIN store
    /\ store["B"].destination[2] = "/a"
    /\ \A n \in DOMAIN store : Persistable(store[n])

\* a schema leaves the store only in a click on Delete for that schema that
\* comes right after a click on Delete for the same schema which only asked
RemovalStep ==
    \A n \in DOMAIN store \ DOMAIN store' :
        /\ comboText = n
        /\ last_delete = [name |-> n, confirmed |-> FALSE]
        /\ last_delete' = [name |-> n, confirmed |-> TRUE]

\* a click on Delete that does not come right after an asking click for the
\* same schema only asks: the store stays as it is
AskStep ==
    (/\ last_delete' # last_delete
     /\ last_delete # [name |-> last_delete'.name, confirmed |-> FALSE]) =>
        /\ ~last_delete'.confirmed
        /\ store' = store
        /\ schemas' = schemas

\* C37: delete_selected_schema removes a schema from the store only on the
\* second of two delete requests made in a row for that same schema: a delete
\* request that does not immediately follow a delete request for the same
\* schema only asks for confirmation and deletes nothing, whatever selection
\* changes, saves or reloads happened before it.
C37_DeleteNeedsTwoClicks == [][RemovalStep /\ AskStep]_vars

\* A was deleted by the second of two clicks, after C had been saved, and a
\* third click for another schema has only asked
C37_Witness ==
    /\ "A" \notin DOMAIN store
    /\ "C" \in DOMAIN store
    /\ "B" \in DOMAIN store
    /\ last_delete = [name |-> "B", confirmed |-> FALSE]

=============================================================================
